---- MODULE Spec2Model ----
(***************************************************************************)
(* Clause segmentation of legal and contract documents                     *)
(* (src/src/contract_splitter.py, src/src/law_splitter.py).                *)
(*                                                                         *)
(* A text is a sequence of characters; offsets are 0-based as in Python,   *)
(* so the character at offset p of text is text[p + 1].  The bounded texts *)
(* are written over the alphabet below.  Of the 26 contract rules only     *)
(* rules 5, 6, 8 (party headings), 18, 19 and 21 can match a text over     *)
(* that alphabet, and of the 10 legal rules only rules 5 and 9; the other  *)
(* rules need a character that no bounded text contains, so they           *)
(* contribute no match and are left out of the rule tables.  The tables    *)
(* keep the source order and priorities.                                   *)
(***************************************************************************)
EXTENDS Integers, Sequences, FiniteSets, Bags, TLC

VARIABLES
    text,               \* the text handed to a splitter
    min_chunk_length,   \* the splitter's configuration
    chunk_size,         \* the splitter's configuration: size hint
    chunk_overlap,      \* the splitter's configuration: overlap hint
    op,                 \* which split call has been made on text
    clause_positions,   \* split_by_contract_clauses: the boundary candidates
    clause_starts,      \* split_by_clauses: the boundaries
    clauses,            \* the spans returned by split_by_contract_clauses
    chunks,             \* the chunks returned by split_by_clauses
    proc,               \* which document processor was constructed
    files,              \* the *.docx and *.doc files of the input directory
    docs,               \* processor.docs
    all_chunks,         \* the records returned by process_documents
    stage,              \* how far the processor has been driven
    statistics,         \* the per-document figures save_results writes
    folders,            \* save_results: the output folder of each source
    chunks_json,        \* the records in the chunks.json of each output folder
    text_is_None,       \* the caller passed None instead of a string
    malformed,          \* index of a rule whose expression is invalid, 0 if none
    raised,             \* the call ended with an exception
    rules_scanned,      \* number of rules handed to re.finditer by the call
    party,              \* the label returned by identify_contract_party
    clause_type,        \* the type returned by _detect_clause_type
    disk,               \* the content of each JSON file of the scanned directories
    vectorstore,        \* the documents held by the Chroma collection
    processed_files,    \* import_directories: the ledger dict of the run
    processed_files_log,\* the ledger file processed_files.log
    stats,              \* SmartDocumentImporter.stats
    all_files,          \* import_directories: the scanned files
    next_file,          \* import_directories: position of the loop in all_files
    success_count,      \* import_directories: files whose import returned True
    returned,           \* what the last import_file call returned
    current_count,      \* main: the collection's size before the import
    runs,               \* number of imports started
    pc                  \* whether an import is running

splitterVars == <<text, op, clause_positions, clause_starts, clauses, chunks>>
saveVars == <<folders, chunks_json>>
batchVars == <<proc, files, docs, all_chunks, stage, statistics, saveVars>>
callVars == <<text_is_None, malformed, raised, rules_scanned>>
labelVars == <<party, clause_type>>
sizeVars == <<chunk_size, chunk_overlap>>
importVars == <<disk, vectorstore, processed_files, processed_files_log, stats,
                all_files, next_file, success_count, returned, current_count, runs, pc>>
vars == <<splitterVars, min_chunk_length, sizeVars, batchVars, callVars, labelVars,
          importVars>>

---------------------------------------------------------------------------
(* Characters *)

NL == "\n"
SP == " "
ORD == "#"          \* any character that starts no rule and is no whitespace
DIGIT == "1"        \* \d
DOT == "."
CIRCLED == "c1"     \* one of the circled numbers U+2460..U+2469

IsSpace(c) == c \in {NL, SP}
IsDigit(c) == c = DIGIT
IsCircled(c) == c = CIRCLED

Abs(n) == IF n < 0 THEN -n ELSE n
Min2(a, b) == IF a <= b THEN a ELSE b

\* text[p]
Char(t, p) == t[p + 1]

\* text[a:b] for 0 <= a, with Python's clamping of b
Slice(t, a, b) == SubSeq(t, a + 1, Min2(b, Len(t)))

\* number of whitespace characters str.strip() removes on the left / right
LeadWs(s) ==
    IF \A i \in 1..Len(s) : IsSpace(s[i]) THEN Len(s)
    ELSE CHOOSE n \in 0..(Len(s) - 1) :
            ~IsSpace(s[n + 1]) /\ \A j \in 1..n : IsSpace(s[j])

TrailWs(s) ==
    IF \A i \in 1..Len(s) : IsSpace(s[i]) THEN Len(s)
    ELSE CHOOSE n \in 0..(Len(s) - 1) :
            ~IsSpace(s[Len(s) - n]) /\ \A j \in (Len(s) - n + 1)..Len(s) : IsSpace(s[j])

\* str.strip()
Strip(s) ==
    IF \A i \in 1..Len(s) : IsSpace(s[i]) THEN <<>>
    ELSE SubSeq(s, LeadWs(s) + 1, Len(s) - TrailWs(s))

\* end of the [^\n]* tail started at offset p
EndOfLine(t, p) ==
    CHOOSE q \in p..Len(t) :
        /\ (q = Len(t) \/ Char(t, q) = NL)
        /\ \A r \in p..(q - 1) : Char(t, r) # NL

\* end of the greedy \d* started at offset p
DigitsEnd(t, p) ==
    CHOOSE q \in p..Len(t) :
        /\ (q = Len(t) \/ ~IsDigit(Char(t, q)))
        /\ \A r \in p..(q - 1) : IsDigit(Char(t, r))

\* end of the greedy \s* started at offset p
SpacesEnd(t, p) ==
    CHOOSE q \in p..Len(t) :
        /\ (q = Len(t) \/ ~IsSpace(Char(t, q)))
        /\ \A r \in p..(q - 1) : IsSpace(Char(t, r))

\* ^ under re.MULTILINE
AtLineStart(t, p) == p = 0 \/ Char(t, p - 1) = NL

---------------------------------------------------------------------------
(* Pattern library *)

\* the party words that head rules 5, 6 and 8, one string per character
JiaFang == <<"jia", "fang">>
YiFang == <<"yi", "fang">>
DaiKuanRen == <<"dai", "kuan", "ren">>

\* the half-width and the full-width colon
IsColon(c) == c \in {":", "fullwidth_colon"}

\* rules 5, 6, 8  ^word[colon][^\n]*    (the texts with party words are
\* written with these three words only)
\* rule 18  ^\d+[\.,][^\n]*    rule 19  ^\d+\.\d+[^\n]*    rule 21  ^[circled][^\n]*
contract_clause_patterns ==
    << [pattern |-> "^jia_fang_colon",     type |-> "jia_fang_info",    priority |-> 5],
       [pattern |-> "^yi_fang_colon",      type |-> "yi_fang_info",     priority |-> 6],
       [pattern |-> "^dai_kuan_ren_colon", type |-> "lender_info",      priority |-> 8],
       [pattern |-> "^digits_dot",        type |-> "numbered",         priority |-> 18],
       [pattern |-> "^digits_dot_digits", type |-> "decimal_numbered", priority |-> 19],
       [pattern |-> "^circled",           type |-> "circled_numbered", priority |-> 21] >>

\* rule 5  \d+\.\d+(\.\d+)*[^\n]*    rule 9  [circled][^\n]*
clause_patterns == << "digits_dot_digits", "circled" >>

\* the word a party rule starts with
HeadingWord(pattern) ==
    CASE pattern = "^jia_fang_colon" -> JiaFang
      [] pattern = "^yi_fang_colon" -> YiFang
      [] pattern = "^dai_kuan_ren_colon" -> DaiKuanRen
      [] OTHER -> <<>>

\* End offset of the match of pattern that starts at offset p of t, -1 if
\* the pattern does not match there.  Every pattern ends in [^\n]*.
MatchEnd(pattern, t, p) ==
    IF p >= Len(t) THEN -1
    ELSE LET q == DigitsEnd(t, p)
             w == HeadingWord(pattern) IN
      CASE w # <<>> ->
             IF Char(t, p) = w[1] /\ AtLineStart(t, p) /\ p + Len(w) < Len(t)
                /\ Slice(t, p, p + Len(w)) = w /\ IsColon(Char(t, p + Len(w)))
             THEN EndOfLine(t, p + Len(w) + 1) ELSE -1
        [] pattern = "^digits_dot" ->
             IF AtLineStart(t, p) /\ q > p /\ q < Len(t) /\ Char(t, q) = DOT
             THEN EndOfLine(t, q + 1) ELSE -1
        [] pattern = "^digits_dot_digits" ->
             IF AtLineStart(t, p) /\ q > p /\ q + 1 < Len(t)
                /\ Char(t, q) = DOT /\ IsDigit(Char(t, q + 1))
             THEN EndOfLine(t, q + 2) ELSE -1
        [] pattern = "^circled" ->
             IF AtLineStart(t, p) /\ IsCircled(Char(t, p))
             THEN EndOfLine(t, p + 1) ELSE -1
        [] pattern = "digits_dot_digits" ->
             IF q > p /\ q + 1 < Len(t)
                /\ Char(t, q) = DOT /\ IsDigit(Char(t, q + 1))
             THEN EndOfLine(t, q + 2) ELSE -1
        [] pattern = "circled" ->
             IF IsCircled(Char(t, p)) THEN EndOfLine(t, p + 1) ELSE -1
        [] pattern = "paragraph_separator" ->
             \* \n\s*\n+ : from a newline to the last newline of the
             \* whitespace run that follows it
             LET r == SpacesEnd(t, p + 1)
                 nls == {k \in (p + 1)..(r - 1) : Char(t, k) = NL}
             IN IF Char(t, p) = NL /\ nls # {}
                THEN (CHOOSE k \in nls : \A j \in nls : j <= k) + 1 ELSE -1
        [] OTHER -> -1

\* re.finditer: the non-overlapping matches, leftmost first
RECURSIVE FindIterFrom(_, _, _)
FindIterFrom(pattern, t, p) ==
    IF p >= Len(t) THEN <<>>
    ELSE LET e == MatchEnd(pattern, t, p) IN
         IF e >= 0
         THEN <<[start |-> p, end |-> e]>> \o FindIterFrom(pattern, t, e)
         ELSE FindIterFrom(pattern, t, p + 1)

finditer(pattern, t) == FindIterFrom(pattern, t, 0)

---------------------------------------------------------------------------
(* ContractTextSplitter *)

Tolerance == 5
HeaderLimit == 50
ParagraphPriority == 999
ShortLimit == 100
MediumLimit == 300

Ellipsis == <<DOT, DOT, DOT>>

\* faulty variant: only an identical offset counts as recorded
_is_position_exactly_recorded(position, positions) ==
    \E i \in DOMAIN positions : position = positions[i][1]

\* A boundary candidate is the tuple (start_pos, header, clause_type, priority)
_is_position_already_recorded(position, positions) ==
    \E i \in DOMAIN positions : Abs(position - positions[i][1]) < Tolerance

\* the inner loop of _find_all_clause_positions: the matches of one rule
RECURSIVE RecordMatches(_, _, _, _, _)
RecordMatches(rule, t, matches, k, positions) ==
    IF k > Len(matches) THEN positions
    ELSE LET start_pos == matches[k].start
             header == Strip(Slice(t, matches[k].start, matches[k].end))
         IN RecordMatches(rule, t, matches, k + 1,
                IF ~_is_position_already_recorded(start_pos, positions)
                THEN Append(positions, <<start_pos, header, rule.type, rule.priority>>)
                ELSE positions)

\* faulty variant: the rules are scanned from the last to the first
RECURSIVE ScanRulesDown(_, _, _)
ScanRulesDown(t, r, positions) ==
    IF r < 1 THEN positions
    ELSE ScanRulesDown(t, r - 1,
            RecordMatches(contract_clause_patterns[r], t,
                          finditer(contract_clause_patterns[r].pattern, t), 1, positions))

ScanRules_reversed(t, r, positions) ==
    ScanRulesDown(t, Len(contract_clause_patterns), positions)

\* the outer loop of _find_all_clause_positions: the rules in table order
RECURSIVE ScanRules(_, _, _)
ScanRules(t, r, positions) ==
    IF r > Len(contract_clause_patterns) THEN positions
    ELSE IF r = malformed THEN ScanRules(t, r + 1, positions)
    ELSE ScanRules(t, r + 1,
            RecordMatches(contract_clause_patterns[r], t,
                          finditer(contract_clause_patterns[r].pattern, t), 1, positions))

\* list.sort(key=lambda x: x[0]): a stable insertion sort on the offset
RECURSIVE InsertByPos(_, _)
InsertByPos(sorted, c) ==
    IF sorted = <<>> THEN <<c>>
    ELSE IF sorted[Len(sorted)][1] <= c[1] THEN Append(sorted, c)
    ELSE Append(InsertByPos(SubSeq(sorted, 1, Len(sorted) - 1), c), sorted[Len(sorted)])

RECURSIVE SortByPos(_)
SortByPos(positions) ==
    IF positions = <<>> THEN <<>>
    ELSE InsertByPos(SortByPos(SubSeq(positions, 1, Len(positions) - 1)),
                     positions[Len(positions)])

\* faulty variant: the candidates are left in discovery order
_find_all_clause_positions_unsorted(t) == ScanRules(t, 1, <<>>)

_find_all_clause_positions(t) == SortByPos(ScanRules(t, 1, <<>>))

\* keyword table (first entries of contract_keywords); its keywords are
\* written in characters outside the alphabet of the bounded texts
contract_keywords ==
    << [keyword |-> <<"dang", "shi", "ren">>, type |-> "party_info"],
       [keyword |-> <<"dai", "kuan">>,        type |-> "loan_clause"],
       [keyword |-> <<"jie", "kuan">>,        type |-> "borrow_clause"] >>

\* keyword in s
Contains(s, keyword) ==
    \E a \in 0..(Len(s) - Len(keyword)) : Slice(s, a, a + Len(keyword)) = keyword

\* faulty variant: the keywords are looked up in the whole first line
_detect_clause_type_whole_line(t) ==
    LET first_line == Strip(Slice(t, 0, EndOfLine(t, 0)))
        hits == {r \in DOMAIN contract_clause_patterns :
                    MatchEnd(contract_clause_patterns[r].pattern, first_line, 0) >= 0}
        kws == {k \in DOMAIN contract_keywords :
                    Contains(first_line, contract_keywords[k].keyword)}
    IN IF hits # {}
       THEN contract_clause_patterns[CHOOSE r \in hits : \A x \in hits : r <= x].type
       ELSE IF kws # {}
       THEN contract_keywords[CHOOSE k \in kws : \A x \in kws : k <= x].type
       ELSE IF Len(t) < ShortLimit THEN "short_clause"
       ELSE IF Len(t) < MediumLimit THEN "medium_clause"
       ELSE "long_clause"

\* re.match is not guarded here: when the loop reaches the malformed rule
\* before a rule has matched, the call ends with re.error
re_error == "re.error"

_detect_clause_type(t) ==
    LET first_line == Strip(Slice(t, 0, EndOfLine(t, 0)))
        hits == {r \in DOMAIN contract_clause_patterns :
                    /\ r # malformed
                    /\ MatchEnd(contract_clause_patterns[r].pattern, first_line, 0) >= 0}
        kws == {k \in DOMAIN contract_keywords :
                    Contains(Slice(first_line, 0, HeaderLimit), contract_keywords[k].keyword)}
    IN IF malformed # 0 /\ ~\E r \in hits : r < malformed
       THEN re_error
       ELSE IF hits # {}
       THEN contract_clause_patterns[CHOOSE r \in hits : \A x \in hits : r <= x].type
       ELSE IF kws # {}
       THEN contract_keywords[CHOOSE k \in kws : \A x \in kws : k <= x].type
       ELSE IF Len(t) < ShortLimit THEN "short_clause"
       ELSE IF Len(t) < MediumLimit THEN "medium_clause"
       ELSE "long_clause"

\* faulty variant: the fragment is not trimmed
Fragment_untrimmed(t, a, b) == [text |-> Slice(t, a, b), lo |-> a, hi |-> b]

\* The fields lo and hi of a span are auxiliary: they record the range
\* text[lo:hi] of the source that the span's text was taken from.
Fragment(t, a, b) ==
    LET raw == Slice(t, a, b)
    IN [text |-> Strip(raw), lo |-> a + LeadWs(raw), hi |-> b - TrailWs(raw)]

\* re.split(r'\n\s*\n+', text): the ranges between the separators
RECURSIVE SplitFrom(_, _, _)
SplitFrom(t, from, p) ==
    IF p >= Len(t) THEN << <<from, Len(t)>> >>
    ELSE LET e == MatchEnd("paragraph_separator", t, p) IN
         IF e >= 0 THEN << <<from, p>> >> \o SplitFrom(t, e, e)
         ELSE SplitFrom(t, from, p + 1)

re_split_paragraphs(t) == SplitFrom(t, 0, 0)

RECURSIVE ParagraphSpans(_, _, _, _)
ParagraphSpans(t, paragraphs, k, min_len) ==
    IF k > Len(paragraphs) THEN <<>>
    ELSE LET f == Fragment(t, paragraphs[k][1], paragraphs[k][2])
             para == f.text
             first == Strip(Slice(para, 0, EndOfLine(para, 0)))
             header == IF Len(first) > HeaderLimit
                       THEN Slice(first, 0, HeaderLimit) \o Ellipsis ELSE first
         IN (IF para # <<>> /\ Len(para) >= min_len
             THEN << [text |-> para, type |-> _detect_clause_type(para),
                      header |-> header, priority |-> ParagraphPriority,
                      lo |-> f.lo, hi |-> f.hi] >>
             ELSE <<>>)
            \o ParagraphSpans(t, paragraphs, k + 1, min_len)

\* faulty variant: the whole text is taken as one paragraph
_split_whole_text(t, min_len) ==
    IF t = <<>> THEN <<>>
    ELSE ParagraphSpans(t, << <<0, Len(t)>> >>, 1, min_len)

_split_by_paragraphs(t, min_len) ==
    IF t = <<>> THEN <<>>
    ELSE ParagraphSpans(t, re_split_paragraphs(t), 1, min_len)

Preamble == <<"he", "tong", "qian", "yan">>     \* the fixed header of the preamble span

\* faulty variant: the type of a clause span is its length bucket
RECURSIVE ClauseSpans_bucketed(_, _, _, _)
ClauseSpans_bucketed(t, positions, i, min_len) ==
    IF i > Len(positions) THEN <<>>
    ELSE LET start_pos == positions[i][1]
             end_pos == IF i + 1 <= Len(positions) THEN positions[i + 1][1] ELSE Len(t)
             f == Fragment(t, start_pos, end_pos)
         IN (IF f.text # <<>> /\ Len(f.text) >= min_len
             THEN << [text |-> f.text,
                      type |-> IF Len(f.text) < ShortLimit THEN "short_clause"
                               ELSE IF Len(f.text) < MediumLimit THEN "medium_clause"
                               ELSE "long_clause",
                      header |-> Strip(positions[i][2]), priority |-> positions[i][4],
                      lo |-> f.lo, hi |-> f.hi] >>
             ELSE <<>>)
            \o ClauseSpans_bucketed(t, positions, i + 1, min_len)

\* faulty variant: every clause span runs to the end of the document
RECURSIVE ClauseSpans_to_end(_, _, _, _)
ClauseSpans_to_end(t, positions, i, min_len) ==
    IF i > Len(positions) THEN <<>>
    ELSE LET f == Fragment(t, positions[i][1], Len(t))
         IN (IF f.text # <<>> /\ Len(f.text) >= min_len
             THEN << [text |-> f.text, type |-> positions[i][3],
                      header |-> Strip(positions[i][2]), priority |-> positions[i][4],
                      lo |-> f.lo, hi |-> f.hi] >>
             ELSE <<>>)
            \o ClauseSpans_to_end(t, positions, i + 1, min_len)

\* faulty variant: chunk_size is a hard cap, a longer span is rejected
RECURSIVE ClauseSpans_capped(_, _, _, _)
ClauseSpans_capped(t, positions, i, min_len) ==
    IF i > Len(positions) THEN <<>>
    ELSE LET start_pos == positions[i][1]
             end_pos == IF i + 1 <= Len(positions) THEN positions[i + 1][1] ELSE Len(t)
             f == Fragment(t, start_pos, end_pos)
         IN (IF f.text # <<>> /\ Len(f.text) >= min_len /\ Len(f.text) <= chunk_size
             THEN << [text |-> f.text, type |-> positions[i][3],
                      header |-> Strip(positions[i][2]), priority |-> positions[i][4],
                      lo |-> f.lo, hi |-> f.hi] >>
             ELSE <<>>)
            \o ClauseSpans_capped(t, positions, i + 1, min_len)

RECURSIVE ClauseSpans(_, _, _, _)
ClauseSpans(t, positions, i, min_len) ==
    IF i > Len(positions) THEN <<>>
    ELSE LET start_pos == positions[i][1]
             end_pos == IF i + 1 <= Len(positions) THEN positions[i + 1][1] ELSE Len(t)
             f == Fragment(t, start_pos, end_pos)
         IN (IF f.text # <<>> /\ Len(f.text) >= min_len
             THEN << [text |-> f.text, type |-> positions[i][3],
                      header |-> Strip(positions[i][2]), priority |-> positions[i][4],
                      lo |-> f.lo, hi |-> f.hi] >>
             ELSE <<>>)
            \o ClauseSpans(t, positions, i + 1, min_len)

\* faulty variant: the text before the first boundary is emitted whatever
\* its length
PreambleSpan_unfiltered(t, positions, min_len) ==
    LET f == Fragment(t, 0, positions[1][1])
    IN IF positions[1][1] > 0 /\ f.text # <<>>
       THEN << [text |-> f.text, type |-> _detect_clause_type(f.text),
                header |-> Preamble, priority |-> 0, lo |-> f.lo, hi |-> f.hi] >>
       ELSE <<>>

\* faulty variant: the text before the first boundary is never emitted
PreambleSpan_none(t, positions, min_len) == <<>>

PreambleSpan(t, positions, min_len) ==
    LET f == Fragment(t, 0, positions[1][1])
    IN IF positions[1][1] > 0 /\ f.text # <<>> /\ Len(f.text) >= min_len
       THEN << [text |-> f.text, type |-> _detect_clause_type(f.text),
                header |-> Preamble, priority |-> 0, lo |-> f.lo, hi |-> f.hi] >>
       ELSE <<>>

SplitAt(t, positions, min_len) ==
    IF positions = <<>> THEN _split_by_paragraphs(t, min_len)
    ELSE PreambleSpan(t, positions, min_len) \o ClauseSpans(t, positions, 1, min_len)

split_by_contract_clauses(t, min_len) ==
    IF t = <<>> \/ Strip(t) = <<>> THEN <<>>
    ELSE SplitAt(t, _find_all_clause_positions(t), min_len)

---------------------------------------------------------------------------
(* UniversalLegalTextSplitter *)

\* the set of (match.start(), match.group()) tuples of all rules
Range(f) == {f[x] : x \in DOMAIN f}

LawMatches(t) ==
    {<<m.start, Slice(t, m.start, m.end)>> :
        m \in UNION {Range(finditer(clause_patterns[r], t)) : r \in DOMAIN clause_patterns}}

\* sorted(set(clause_starts), key=lambda x: x[0])
RECURSIVE SortedByStart(_)
SortedByStart(S) ==
    IF S = {} THEN <<>>
    ELSE LET first == CHOOSE x \in S : \A y \in S : x[1] <= y[1]
         IN <<first>> \o SortedByStart(S \ {first})

\* faulty variant: a boundary within the tolerance of an earlier one is dropped
RECURSIVE DropNear(_, _, _)
DropNear(starts, k, kept) ==
    IF k > Len(starts) THEN kept
    ELSE DropNear(starts, k + 1,
            IF \E i \in DOMAIN kept : Abs(kept[i][1] - starts[k][1]) < Tolerance
            THEN kept ELSE Append(kept, starts[k]))

law_clause_starts_tolerant(t) == DropNear(SortedByStart(LawMatches(t)), 1, <<>>)

law_clause_starts(t) == SortedByStart(LawMatches(t))

RECURSIVE LawClauseChunks(_, _, _, _)
LawClauseChunks(t, starts, i, min_len) ==
    IF i > Len(starts) THEN <<>>
    ELSE LET start_pos == starts[i][1]
             end_pos == IF i + 1 <= Len(starts) THEN starts[i + 1][1] ELSE Len(t)
             clause_text == Strip(Slice(t, start_pos, end_pos))
         IN (IF clause_text # <<>> /\ Len(clause_text) >= min_len
             THEN <<clause_text>> ELSE <<>>)
            \o LawClauseChunks(t, starts, i + 1, min_len)

LawPreChunk(t, starts, min_len) ==
    LET pre_text == Strip(Slice(t, 0, starts[1][1]))
    IN IF starts[1][1] > 0 /\ pre_text # <<>> /\ Len(pre_text) >= min_len
       THEN <<pre_text>> ELSE <<>>

\* faulty variant: without a boundary the text is cut at the blank lines
RECURSIVE LawParagraphChunks(_, _, _, _)
LawParagraphChunks(t, paragraphs, k, min_len) ==
    IF k > Len(paragraphs) THEN <<>>
    ELSE LET para == Strip(Slice(t, paragraphs[k][1], paragraphs[k][2]))
         IN (IF para # <<>> /\ Len(para) >= min_len THEN <<para>> ELSE <<>>)
            \o LawParagraphChunks(t, paragraphs, k + 1, min_len)

LawSplitAt_by_paragraphs(t, starts, min_len) ==
    IF starts = <<>>
    THEN LawParagraphChunks(t, SplitFrom(t, 0, 0), 1, min_len)
    ELSE LawPreChunk(t, starts, min_len) \o LawClauseChunks(t, starts, 1, min_len)

LawSplitAt(t, starts, min_len) ==
    IF starts = <<>>
    THEN (IF Len(Strip(t)) >= min_len THEN <<Strip(t)>> ELSE <<>>)
    ELSE LawPreChunk(t, starts, min_len) \o LawClauseChunks(t, starts, 1, min_len)

split_by_clauses(t, min_len) ==
    IF t = <<>> \/ Strip(t) = <<>> THEN <<>>
    ELSE LawSplitAt(t, law_clause_starts(t), min_len)

---------------------------------------------------------------------------
(* The splitters applied to one text *)

MaxLen == 5
MaxMinLen == 2
DefaultMinChunkLength == 30
DefaultChunkSize == 1000
DefaultChunkOverlap == 150

\* ContractTextSplitter(): the size hints left at their defaults
DefaultSizes == chunk_size = DefaultChunkSize /\ chunk_overlap = DefaultChunkOverlap

Alphabet == {ORD, NL, DIGIT, DOT, CIRCLED}

ShortTexts == UNION {[1..n -> Alphabet] : n \in 0..MaxLen}

Repeat(c, n) == [i \in 1..n |-> c]

\* longer documents: a first line above the header limit, whitespace other
\* than the newline, a single short paragraph
SpecialTexts ==
    { Repeat(ORD, HeaderLimit + 1) \o <<NL, NL, ORD, ORD>>,
      Repeat(ORD, HeaderLimit) \o <<NL, SP, NL, ORD, ORD>>,
      <<SP, DIGIT, DOT, ORD, NL, SP, NL, ORD, ORD, SP>>,
      <<ORD, ORD, SP, NL, NL, SP, CIRCLED, ORD>>,
      <<CIRCLED>> \o Repeat(ORD, 47) \o <<NL, NL, DIGIT, DOT>> \o Repeat(ORD, 30),
      <<CIRCLED, ORD, ORD, ORD, NL, CIRCLED>>,
      <<CIRCLED, NL, CIRCLED, ORD, NL, CIRCLED>>,
      <<DIGIT, DOT, NL, CIRCLED, NL, CIRCLED>>,
      <<DIGIT, DOT, DIGIT, NL, CIRCLED, NL, CIRCLED>>,
      <<CIRCLED, ORD, ORD, ORD, NL, DIGIT, DOT, ORD>>,
      <<ORD, ORD, ORD, NL, NL, ORD, NL, NL, NL, ORD, ORD>>,
      Repeat(ORD, 10) }

Texts == ShortTexts \cup SpecialTexts

MinLens == (1..MaxMinLen) \cup {DefaultMinChunkLength}

\* faulty variant: the rules are scanned whatever the text is
rules_handed_to_finditer_unguarded(is_none, t, patterns) == Len(patterns)

\* number of rules a split call hands to re.finditer: none when the call
\* returns at "if not text or not text.strip()", every rule otherwise
rules_handed_to_finditer(is_none, t, patterns) ==
    IF is_none \/ t = <<>> \/ Strip(t) = <<>> THEN 0 ELSE Len(patterns)

\* the values before any call
\* no importer was constructed
NoImporter ==
    /\ disk = <<>>
    /\ vectorstore = EmptyBag
    /\ processed_files = <<>>
    /\ processed_files_log = <<>>
    /\ stats = <<>>
    /\ all_files = <<>>
    /\ next_file = 0
    /\ success_count = 0
    /\ returned = "none"
    /\ current_count = 0
    /\ runs = 0
    /\ pc = "none"

NoCall ==
    /\ raised = FALSE
    /\ rules_scanned = 0
    /\ party = ""
    /\ clause_type = ""
    /\ statistics = <<>>
    /\ folders = <<>>
    /\ chunks_json = <<>>
    /\ NoImporter

\* None is kept as the empty text with text_is_None set: both are falsy.
\* The longest texts are split with the smallest and the largest minimum
\* length only.
Init ==
    /\ \/ /\ text \in ShortTexts
          /\ min_chunk_length \in
                (IF Len(text) < MaxLen THEN 1..MaxMinLen ELSE {1, MaxMinLen})
          /\ text_is_None = FALSE
       \/ text \in SpecialTexts /\ min_chunk_length \in MinLens /\ text_is_None = FALSE
       \/ text = <<>> /\ min_chunk_length \in MinLens /\ text_is_None = TRUE
    /\ malformed = 0
    /\ NoCall
    /\ DefaultSizes
    /\ op = "new"
    /\ clause_positions = <<>>
    /\ clause_starts = <<>>
    /\ clauses = <<>>
    /\ chunks = <<>>
    /\ proc = "none"
    /\ files = <<>>
    /\ docs = <<>>
    /\ all_chunks = <<>>
    /\ stage = "idle"

\* ContractTextSplitter.split_by_contract_clauses(text)
SplitByContractClauses ==
    /\ op = "new"
    /\ op' = "contract"
    /\ LET early == text_is_None \/ text = <<>> \/ Strip(text) = <<>>
           spans == split_by_contract_clauses(text, min_chunk_length)
           failed == \E k \in DOMAIN spans : spans[k].type = re_error
       IN /\ clause_positions' = IF early THEN <<>> ELSE _find_all_clause_positions(text)
          /\ rules_scanned' =
                rules_handed_to_finditer(text_is_None, text, contract_clause_patterns)
          /\ raised' = failed
          /\ clauses' = IF failed THEN <<>> ELSE spans
    /\ UNCHANGED <<text, min_chunk_length, sizeVars, importVars, clause_starts, chunks, batchVars,
                   text_is_None, malformed, labelVars>>

\* UniversalLegalTextSplitter.split_by_clauses(text)
SplitByClauses ==
    /\ op = "new"
    /\ op' = "law"
    /\ LET early == text_is_None \/ text = <<>> \/ Strip(text) = <<>>
       IN /\ clause_starts' = IF early THEN <<>> ELSE law_clause_starts(text)
          /\ rules_scanned' = rules_handed_to_finditer(text_is_None, text, clause_patterns)
    /\ chunks' = split_by_clauses(text, min_chunk_length)
    /\ UNCHANGED <<text, min_chunk_length, sizeVars, importVars, clause_positions, clauses, batchVars,
                   text_is_None, malformed, raised, labelVars>>

Next == SplitByContractClauses \/ SplitByClauses

Spec == Init /\ [][Next]_vars

TypeOK == op \in {"new", "contract", "law", "idle", "span", "party", "type"}

---------------------------------------------------------------------------
(* Properties of the splitters *)

\* the rule matches of a text in the order _find_all_clause_positions
\* discovers them: rule by rule in table order, left to right within a rule
RECURSIVE MatchesOfRules(_, _)
MatchesOfRules(t, r) ==
    IF r > Len(contract_clause_patterns) THEN <<>>
    ELSE LET ms == finditer(contract_clause_patterns[r].pattern, t)
         IN [k \in DOMAIN ms |->
                <<ms[k].start, Strip(Slice(t, ms[k].start, ms[k].end)),
                  contract_clause_patterns[r].type, contract_clause_patterns[r].priority>>]
            \o MatchesOfRules(t, r + 1)

Discovered == IF Strip(text) = <<>> THEN <<>> ELSE MatchesOfRules(text, 1)

Kept(m) == m \in Range(clause_positions)

CandidatesAt(S) == {k \in DOMAIN clause_positions : clause_positions[k][1] \in S}

BoundarySpansAt(S) ==
    {k \in DOMAIN clauses : clauses[k].priority \notin {0, ParagraphPriority} /\ clauses[k].lo \in S}

\* s is a subsequence of t
RECURSIVE IsSubsequenceFrom(_, _, _, _)
IsSubsequenceFrom(s, i, t, j) ==
    IF i > Len(s) THEN TRUE
    ELSE IF j > Len(t) THEN FALSE
    ELSE IF s[i] = t[j] THEN IsSubsequenceFrom(s, i + 1, t, j + 1)
    ELSE IsSubsequenceFrom(s, i, t, j + 1)

RECURSIVE ConcatTexts(_, _)
ConcatTexts(spans, k) ==
    IF k > Len(spans) THEN <<>> ELSE spans[k].text \o ConcatTexts(spans, k + 1)

\* C2: the spans of split_by_contract_clauses are in document order, come
\* from pairwise disjoint ranges of the text, and their concatenation is a
\* subsequence of the text.
C2_OrderedDisjointSubsequence ==
    op = "contract" =>
        /\ \A k \in DOMAIN clauses :
              /\ 0 <= clauses[k].lo /\ clauses[k].lo < clauses[k].hi
              /\ clauses[k].hi <= Len(text)
              /\ clauses[k].text = Slice(text, clauses[k].lo, clauses[k].hi)
        /\ \A k \in 1..(Len(clauses) - 1) : clauses[k].hi <= clauses[k + 1].lo
        /\ IsSubsequenceFrom(ConcatTexts(clauses, 1), 1, text, 1)

C2_Witness ==
    /\ op = "contract"
    /\ Len(clauses) >= 2
    /\ clauses[1].priority = 0
    /\ clauses[1].hi < clauses[2].lo

\* C3 as stated: two rule matches at most 5 characters apart never both
\* become boundary candidates, nor two spans.
C3_Original ==
    op = "contract" =>
        LET D == Discovered IN
        \A i, j \in DOMAIN D :
            (i < j /\ Abs(D[i][1] - D[j][1]) <= Tolerance) =>
                /\ Cardinality(CandidatesAt({D[i][1], D[j][1]})) <= 1
                /\ Cardinality(BoundarySpansAt({D[i][1], D[j][1]})) <= 1

\* What the comparison abs(position - pos) < 5 does give: two rule matches
\* fewer than 5 characters apart never both become boundary candidates, nor
\* two spans, and a candidate lies within the window of each of them.
C3_WithinWindowOneBoundary ==
    op = "contract" =>
        LET D == Discovered IN
        \A i, j \in DOMAIN D :
            (i < j /\ Abs(D[i][1] - D[j][1]) < Tolerance) =>
                /\ Cardinality(CandidatesAt({D[i][1], D[j][1]})) <= 1
                /\ Cardinality(BoundarySpansAt({D[i][1], D[j][1]})) <= 1
                /\ \A m \in {i, j} : \E k \in DOMAIN clause_positions :
                      Abs(clause_positions[k][1] - D[m][1]) < Tolerance

C3_Witness ==
    /\ op = "contract"
    /\ LET D == Discovered IN
       \E i, j \in DOMAIN D :
          /\ i < j
          /\ D[i][3] # D[j][3]
          /\ D[i][1] # D[j][1]
          /\ Abs(D[i][1] - D[j][1]) = Tolerance - 1
          /\ Len(clause_positions) = 1
          /\ Len(clauses) = 1

\* C4 as stated: of two rule matches within the tolerance window, whenever
\* one of them is kept it is the earlier-discovered one, with its header,
\* type and priority, and the later-discovered one is discarded.
C4_Original ==
    op = "contract" =>
        LET D == Discovered IN
        \A i, j \in DOMAIN D :
            (/\ i < j
             /\ Abs(D[i][1] - D[j][1]) < Tolerance
             /\ (Kept(D[i]) \/ Kept(D[j])))
                => (Kept(D[i]) /\ ~Kept(D[j]))

\* C4 amended: of two rule matches within the tolerance window the later-
\* discovered one is discarded whenever the earlier-discovered one is kept;
\* it is kept only when the earlier one was itself discarded for a still
\* earlier kept candidate that lies within the window of the earlier but
\* not of the later match.  Every candidate carries the header, type and
\* priority of the earliest-discovered match at its offset.
C4_EarlierKeptExcludesLater ==
    op = "contract" =>
        LET D == Discovered IN
        /\ \A i, j \in DOMAIN D :
              (i < j /\ Abs(D[i][1] - D[j][1]) < Tolerance) =>
                  /\ Kept(D[i]) => ~Kept(D[j])
                  /\ Kept(D[j]) =>
                        \E h \in 1..(i - 1) :
                            /\ Kept(D[h])
                            /\ Abs(D[h][1] - D[i][1]) < Tolerance
                            /\ Abs(D[h][1] - D[j][1]) >= Tolerance
        /\ \A k \in DOMAIN clause_positions :
              \E i \in DOMAIN D :
                  /\ clause_positions[k] = D[i]
                  /\ \A h \in 1..(i - 1) : D[h][1] # D[i][1]

C4_Witness ==
    /\ op = "contract"
    /\ LET D == Discovered IN
       \E h, i, j \in DOMAIN D :
          /\ h < i /\ i < j
          /\ Abs(D[i][1] - D[j][1]) < Tolerance
          /\ Kept(D[h])
          /\ ~Kept(D[i])
          /\ Kept(D[j])
          /\ D[h][3] # D[j][3]

\* C5: every span of either splitter is non-empty, has no whitespace at its
\* ends and is at least min_chunk_length long; a text shorter than
\* min_chunk_length yields the empty list.
WellTrimmed(s) == s # <<>> /\ ~IsSpace(s[1]) /\ ~IsSpace(s[Len(s)])

C5_SpansTrimmedAndLongEnough ==
    /\ op = "contract" =>
          /\ \A k \in DOMAIN clauses :
                WellTrimmed(clauses[k].text) /\ Len(clauses[k].text) >= min_chunk_length
          /\ Len(text) < min_chunk_length => clauses = <<>>
    /\ op = "law" =>
          /\ \A k \in DOMAIN chunks :
                WellTrimmed(chunks[k]) /\ Len(chunks[k]) >= min_chunk_length
          /\ Len(text) < min_chunk_length => chunks = <<>>

C5_Witness ==
    /\ op = "contract"
    /\ text = Repeat(ORD, 10)
    /\ min_chunk_length = DefaultMinChunkLength
    /\ clauses = <<>>

\* the fragments the splitter cuts the text into, before trimming: the
\* preamble and the text between consecutive boundaries, or the paragraphs
RawFragments ==
    IF clause_positions = <<>> THEN Range(re_split_paragraphs(text))
    ELSE {<<clause_positions[i][1],
            IF i < Len(clause_positions) THEN clause_positions[i + 1][1] ELSE Len(text)>> :
              i \in DOMAIN clause_positions}
         \cup (IF clause_positions[1][1] > 0 THEN {<<0, clause_positions[1][1]>>} ELSE {})

\* no fragment falls below the minimum length once trimmed
NoFragmentDropped ==
    \A f \in RawFragments :
        \E a, b \in f[1]..f[2] :
            /\ b - a >= min_chunk_length /\ b > a
            /\ ~IsSpace(Char(text, a)) /\ ~IsSpace(Char(text, b - 1))

SpansCovering(p) == {k \in DOMAIN clauses : clauses[k].lo <= p /\ p < clauses[k].hi}

\* C6: when no fragment is dropped, every character of the text lies in
\* exactly one span, except whitespace, which lies in at most one.
C6_SpansReconstructDocument ==
    (op = "contract" /\ Strip(text) # <<>> /\ NoFragmentDropped) =>
        /\ \A k \in DOMAIN clauses :
              clauses[k].text = Slice(text, clauses[k].lo, clauses[k].hi)
        /\ \A p \in 0..(Len(text) - 1) :
              /\ Cardinality(SpansCovering(p)) <= 1
              /\ ~IsSpace(Char(text, p)) => Cardinality(SpansCovering(p)) = 1

C6_Witness ==
    /\ op = "contract"
    /\ NoFragmentDropped
    /\ min_chunk_length >= 2
    /\ Len(clauses) >= 2
    /\ clauses[1].priority = 0
    /\ \E p \in 0..(Len(text) - 1) : SpansCovering(p) = {}

\* C7: two candidates, at offsets 0 and k, and both fragments long enough:
\* exactly the two spans text[0:k] and text[k:], trimmed, each with the
\* matched heading line as header and the type and priority of a rule that
\* matches at its offset.
HeadingLine(p) == Strip(Slice(text, p, EndOfLine(text, p)))

RuleMatchesAt(r, p) ==
    \E m \in Range(finditer(contract_clause_patterns[r].pattern, text)) : m.start = p

C7_TwoCandidatesTwoSpans ==
    (/\ op = "contract"
     /\ Len(clause_positions) = 2
     /\ clause_positions[1][1] = 0
     /\ Len(Strip(Slice(text, 0, clause_positions[2][1]))) >= min_chunk_length
     /\ Len(Strip(Slice(text, clause_positions[2][1], Len(text)))) >= min_chunk_length)
    => LET k == clause_positions[2][1] IN
        /\ Len(clauses) = 2
        /\ clauses[1].text = Strip(Slice(text, 0, k))
        /\ clauses[2].text = Strip(Slice(text, k, Len(text)))
        /\ clauses[1].header = HeadingLine(0)
        /\ clauses[2].header = HeadingLine(k)
        /\ \A n \in 1..2 :
              /\ clauses[n].priority \notin {0, ParagraphPriority}
              /\ \E r \in DOMAIN contract_clause_patterns :
                    /\ clauses[n].type = contract_clause_patterns[r].type
                    /\ clauses[n].priority = contract_clause_patterns[r].priority
                    /\ RuleMatchesAt(r, clause_positions[n][1])

C7_Witness ==
    /\ op = "contract"
    /\ min_chunk_length = DefaultMinChunkLength
    /\ Len(clause_positions) = 2
    /\ clause_positions[1][1] = 0
    /\ clause_positions[2][1] = 50
    /\ clause_positions[1][4] > clause_positions[2][4]
    /\ Len(clauses) = 2
    /\ clauses[2].lo = clause_positions[2][1]

\* The paragraphs of the text, read line by line: a blank line holds only
\* whitespace, a paragraph is a maximal run of consecutive non-blank lines.
RECURSIVE LinesFrom(_, _)
LinesFrom(t, a) ==
    LET e == EndOfLine(t, a)
    IN << <<a, e>> >> \o (IF e < Len(t) THEN LinesFrom(t, e + 1) ELSE <<>>)

IsBlankLine(t, line) == \A p \in line[1]..(line[2] - 1) : IsSpace(Char(t, p))

\* cur is the range of the paragraph being read, <<>> between paragraphs
RECURSIVE GroupLines(_, _, _, _)
GroupLines(t, lines, k, cur) ==
    IF k > Len(lines) THEN (IF cur = <<>> THEN <<>> ELSE <<cur>>)
    ELSE IF IsBlankLine(t, lines[k])
         THEN (IF cur = <<>> THEN <<>> ELSE <<cur>>) \o GroupLines(t, lines, k + 1, <<>>)
         ELSE GroupLines(t, lines, k + 1,
                         IF cur = <<>> THEN lines[k] ELSE <<cur[1], lines[k][2]>>)

BlankLineParagraphs(t) ==
    LET ranges == GroupLines(t, LinesFrom(t, 0), 1, <<>>)
    IN [k \in DOMAIN ranges |-> Strip(Slice(t, ranges[k][1], ranges[k][2]))]

RECURSIVE KeepLongEnough(_, _, _)
KeepLongEnough(paras, k, min_len) ==
    IF k > Len(paras) THEN <<>>
    ELSE (IF Len(paras[k]) >= min_len THEN <<paras[k]>> ELSE <<>>)
         \o KeepLongEnough(paras, k + 1, min_len)

FirstLineHeader(para) ==
    LET first == Strip(Slice(para, 0, EndOfLine(para, 0)))
    IN IF Len(first) > HeaderLimit
       THEN [i \in 1..(HeaderLimit + 3) |-> IF i <= HeaderLimit THEN first[i] ELSE DOT]
       ELSE first

\* C8: no rule match and two or more paragraphs: one span per paragraph of
\* at least min_chunk_length characters, in order, with priority 999 and
\* the (truncated) first line as header.
C8_ParagraphFallback ==
    (/\ op = "contract"
     /\ clause_positions = <<>>
     /\ Discovered = <<>>
     /\ Len(BlankLineParagraphs(text)) >= 2)
    => LET expected == KeepLongEnough(BlankLineParagraphs(text), 1, min_chunk_length) IN
        /\ Len(clauses) = Len(expected)
        /\ \A k \in DOMAIN clauses :
              /\ clauses[k].text = expected[k]
              /\ clauses[k].priority = ParagraphPriority
              /\ clauses[k].header = FirstLineHeader(expected[k])

C8_Witness ==
    /\ op = "contract"
    /\ clause_positions = <<>>
    /\ Discovered = <<>>
    /\ Len(BlankLineParagraphs(text)) >= 2
    /\ Len(clauses) = 2
    /\ Len(clauses[1].text) = HeaderLimit + 1
    /\ Len(clauses[1].header) = HeaderLimit + 3

LawRuleStarts ==
    IF Strip(text) = <<>> THEN {}
    ELSE UNION {{<<r, m.start>> : m \in Range(finditer(clause_patterns[r], text))} :
                   r \in DOMAIN clause_patterns}

\* C9 as stated: in the legal variant, no rule match and two or more
\* paragraphs give one chunk per paragraph of at least min_chunk_length.
C9_Original ==
    (/\ op = "law"
     /\ clause_starts = <<>>
     /\ LawRuleStarts = {}
     /\ Len(BlankLineParagraphs(text)) >= 2)
    => chunks = KeepLongEnough(BlankLineParagraphs(text), 1, min_chunk_length)

\* the text without the whitespace at its two ends
TrimmedWhole ==
    LET ns == {p \in 0..(Len(text) - 1) : ~IsSpace(Char(text, p))}
        a == CHOOSE p \in ns : \A q \in ns : p <= q
        b == CHOOSE p \in ns : \A q \in ns : q <= p
    IN IF ns = {} THEN <<>> ELSE [i \in 1..(b - a + 1) |-> Char(text, a + i - 1)]

\* C9 amended: in the legal variant, a text without any rule match yields
\* a single chunk holding the whole trimmed text, blank lines included,
\* if that is at least min_chunk_length long, and no chunk otherwise.
C9_WholeTextChunk ==
    (op = "law" /\ LawRuleStarts = {}) =>
        LET whole == TrimmedWhole IN
        chunks = IF whole # <<>> /\ Len(whole) >= min_chunk_length
                 THEN <<whole>> ELSE <<>>

C9_Witness ==
    /\ op = "law"
    /\ LawRuleStarts = {}
    /\ Len(KeepLongEnough(BlankLineParagraphs(text), 1, min_chunk_length)) >= 2
    /\ Len(chunks) = 1
    /\ \E p \in 1..(Len(chunks[1]) - 1) : chunks[1][p] = NL /\ chunks[1][p + 1] = NL

BoundariesAt(S) == {k \in DOMAIN clause_starts : clause_starts[k][1] \in S}

\* C10 as stated: in the legal variant, two matches of different rules at
\* different offsets within 5 characters of each other give one boundary.
C10_Original ==
    op = "law" =>
        LET starts == LawRuleStarts IN
        \A x, y \in starts :
            (x[1] # y[1] /\ x[2] # y[2] /\ Abs(x[2] - y[2]) < Tolerance) =>
                Cardinality(BoundariesAt({x[2], y[2]})) <= 1

\* C10 amended: in the legal variant only matches with the same start
\* offset collapse: every match offset is a boundary exactly once, the
\* boundaries are in strictly ascending order, and two matches at different
\* offsets stay two boundaries however close they are.
C10_OnlyEqualOffsetsCollapse ==
    op = "law" =>
        LET starts == LawRuleStarts IN
        /\ \A x \in starts : Cardinality(BoundariesAt({x[2]})) = 1
        /\ \A k \in DOMAIN clause_starts :
              /\ \E x \in starts : x[2] = clause_starts[k][1]
              /\ clause_starts[k][2] =
                    Slice(text, clause_starts[k][1], EndOfLine(text, clause_starts[k][1]))
        /\ \A k \in 1..(Len(clause_starts) - 1) : clause_starts[k][1] < clause_starts[k + 1][1]
        /\ \A x, y \in starts :
              x[2] # y[2] => Cardinality(BoundariesAt({x[2], y[2]})) = 2

C10_Witness ==
    /\ op = "law"
    /\ LET starts == LawRuleStarts IN
       \E x, y \in starts :
          /\ x[1] # y[1] /\ x[2] # y[2] /\ Abs(x[2] - y[2]) < Tolerance
          /\ Cardinality(BoundariesAt({x[2], y[2]})) = 2
    /\ Len(chunks) = 2

---------------------------------------------------------------------------
(* ContractDocumentProcessor and UniversalLegalDocumentProcessor *)

PartyLimit == 200
ContractPreviewLimit == 120
LawPreviewLimit == 100
LawHeaderScan == 50
LawHeaderLimit == 30

\* Path(file_path).stem
Stem(name) ==
    CASE name = "b.docx" -> "b"
      [] name = "a_1.docx" -> "a_1"
      [] name = "a:.docx" -> "a:"
      [] name = "a?.docx" -> "a?"
      [] OTHER -> "a"

\* the non-empty stripped paragraphs of a document
RECURSIVE StrippedParagraphs(_, _)
StrippedParagraphs(paragraphs, k) ==
    IF k > Len(paragraphs) THEN <<>>
    ELSE (IF Strip(paragraphs[k]) # <<>> THEN <<Strip(paragraphs[k])>> ELSE <<>>)
         \o StrippedParagraphs(paragraphs, k + 1)

\* '\n\n'.join(paragraphs)
RECURSIVE JoinParagraphs(_, _)
JoinParagraphs(paragraphs, k) ==
    IF k > Len(paragraphs) THEN <<>>
    ELSE IF k = Len(paragraphs) THEN paragraphs[k]
    ELSE paragraphs[k] \o <<NL, NL>> \o JoinParagraphs(paragraphs, k + 1)

\* ContractDocumentProcessor.extract_docx_text; no paragraph over the
\* alphabet holds a title keyword, so the title falls back to the stem
contract_extract_docx_text(file) ==
    IF file.readable
    THEN LET paragraphs == StrippedParagraphs(file.paragraphs, 1)
         IN [file_name |-> file.file_name,
             file_stem |-> Stem(file.file_name),
             contract_title |-> IF paragraphs = <<>> THEN "untitled" ELSE Stem(file.file_name),
             full_text |-> JoinParagraphs(paragraphs, 1),
             total_paragraphs |-> Len(paragraphs),
             extraction_success |-> TRUE]
    ELSE [file_name |-> file.file_name,
          file_stem |-> Stem(file.file_name),
          contract_title |-> "extraction_failed",
          full_text |-> <<>>,
          error |-> "error",
          extraction_success |-> FALSE]

\* UniversalLegalDocumentProcessor.extract_docx_text
law_extract_docx_text(file) ==
    IF file.readable
    THEN LET paragraphs == StrippedParagraphs(file.paragraphs, 1)
         IN [file_name |-> file.file_name,
             full_text |-> JoinParagraphs(paragraphs, 1),
             total_paragraphs |-> Len(paragraphs),
             extraction_success |-> TRUE]
    ELSE [file_name |-> file.file_name,
          full_text |-> <<>>,
          error |-> "error",
          extraction_success |-> FALSE]

\* faulty variant: the first failed extraction ends the loading
RECURSIVE SuccessfulDocs_abort(_, _)
SuccessfulDocs_abort(extracted, k) ==
    IF k > Len(extracted) \/ ~extracted[k].extraction_success THEN <<>>
    ELSE <<extracted[k]>> \o SuccessfulDocs_abort(extracted, k + 1)

RECURSIVE SuccessfulDocs(_, _)
SuccessfulDocs(extracted, k) ==
    IF k > Len(extracted) THEN <<>>
    ELSE (IF extracted[k].extraction_success THEN <<extracted[k]>> ELSE <<>>)
         \o SuccessfulDocs(extracted, k + 1)

contract_load_all_documents(fs) ==
    SuccessfulDocs([k \in DOMAIN fs |-> contract_extract_docx_text(fs[k])], 1)

law_load_all_documents(fs) ==
    SuccessfulDocs([k \in DOMAIN fs |-> law_extract_docx_text(fs[k])], 1)

\* the party keywords in the order identify_contract_party tries them; they
\* are written in characters outside the alphabet of the bounded texts
party_keywords ==
    << [keyword |-> <<"jia", "fang">>,        party |-> "jia_fang"],
       [keyword |-> <<"yi", "fang">>,         party |-> "yi_fang"],
       [keyword |-> <<"jie", "kuan", "ren">>, party |-> "borrower"],
       [keyword |-> <<"dai", "kuan", "ren">>, party |-> "lender"],
       [keyword |-> <<"chu", "jie", "ren">>,  party |-> "creditor"],
       [keyword |-> <<"bao", "zheng", "ren">>, party |-> "guarantor"],
       [keyword |-> <<"di", "ya", "ren">>,    party |-> "mortgagor"] >>

\* offsets in s at which keyword is followed by a colon
KeywordColonOffsets(s, keyword) ==
    {a \in 0..(Len(s) - Len(keyword) - 1) :
        /\ Slice(s, a, a + Len(keyword)) = keyword
        /\ IsColon(Char(s, a + Len(keyword)))}

\* faulty variant: the whole text is searched
identify_contract_party_whole_text(t) ==
    LET hits == {k \in DOMAIN party_keywords :
                    KeywordColonOffsets(t, party_keywords[k].keyword) # {}}
    IN IF hits = {} THEN "other"
       ELSE party_keywords[CHOOSE k \in hits : \A x \in hits : k <= x].party

\* faulty variant: the keyword that comes first in the text wins
identify_contract_party_leftmost(t) ==
    LET head == Slice(t, 0, PartyLimit)
        occ == {<<a, k>> : a \in 0..Len(head), k \in DOMAIN party_keywords}
        hits == {h \in occ : h[1] \in KeywordColonOffsets(head, party_keywords[h[2]].keyword)}
    IN IF hits = {} THEN "other"
       ELSE party_keywords[(CHOOSE h \in hits : \A x \in hits : h[1] <= x[1])[2]].party

identify_contract_party(t) ==
    LET head == Slice(t, 0, PartyLimit)
        hits == {k \in DOMAIN party_keywords :
                    \E a \in 0..(Len(head) - Len(party_keywords[k].keyword) - 1) :
                        /\ Slice(head, a, a + Len(party_keywords[k].keyword))
                              = party_keywords[k].keyword
                        /\ IsColon(Char(head, a + Len(party_keywords[k].keyword)))}
    IN IF hits = {} THEN "other"
       ELSE party_keywords[CHOOSE k \in hits : \A x \in hits : k <= x].party

\* text[:limit].replace('\n', ' ') + ("..." if len(text) > limit else "")
Preview(t, limit) ==
    [i \in 1..Min2(Len(t), limit) |-> IF t[i] = NL THEN SP ELSE t[i]]
    \o (IF Len(t) > limit THEN Ellipsis ELSE <<>>)

\* faulty variant: the index counts from one
enumerate_index_from_one(k) == k

\* the index enumerate() gives to the k-th element of a list
enumerate_index(k) == k - 1

\* the records process_documents appends for one contract document
ContractDocChunks(doc, min_len) ==
    LET cl == split_by_contract_clauses(doc.full_text, min_len)
    IN [k \in 1..Len(cl) |->
          [text |-> cl[k].text,
           metadata |->
             [source |-> doc.file_name,
              source_stem |-> doc.file_stem,
              contract_title |-> doc.contract_title,
              chunk_index |-> enumerate_index(k),
              total_chunks_in_doc |-> Len(cl),
              chunk_size |-> Len(cl[k].text),
              clause_type |-> cl[k].type,
              clause_header |-> cl[k].header,
              contract_party |-> identify_contract_party(cl[k].text),
              clause_priority |-> cl[k].priority,
              chunk_preview |-> Preview(cl[k].text, ContractPreviewLimit)]]]

law_clause_types == <<"numbered_clause", "circled_number">>

\* UniversalLegalTextSplitter.detect_clause_type
law_detect_clause_type(t) ==
    LET hits == {r \in DOMAIN clause_patterns : MatchEnd(clause_patterns[r], t, 0) >= 0}
    IN IF hits = {} THEN "plain_text"
       ELSE law_clause_types[CHOOSE r \in hits : \A x \in hits : r <= x]

law_clause_header(chunk) ==
    LET scan == Slice(chunk, 0, LawHeaderScan)
        first == Strip(Slice(scan, 0, EndOfLine(scan, 0)))
    IN IF law_detect_clause_type(chunk) = "plain_text" THEN <<"plain_text">>
       ELSE IF Len(first) > LawHeaderLimit
       THEN Slice(first, 0, LawHeaderLimit) \o Ellipsis ELSE first

\* the records process_documents appends for one legal document
LawDocChunks(doc, min_len) ==
    LET ch == split_by_clauses(doc.full_text, min_len)
    IN [k \in 1..Len(ch) |->
          [text |-> ch[k],
           metadata |->
             [source |-> doc.file_name,
              chunk_index |-> enumerate_index(k),
              total_chunks_in_doc |-> Len(ch),
              chunk_size |-> Len(ch[k]),
              clause_type |-> law_detect_clause_type(ch[k]),
              clause_header |-> law_clause_header(ch[k]),
              chunk_preview |-> Preview(ch[k], LawPreviewLimit)]]]

\* faulty variant: every document split leaves the splitter's threshold
\* raised by the length of its text
RECURSIVE contract_process_documents_stateful(_, _, _)
contract_process_documents_stateful(ds, k, min_len) ==
    IF k > Len(ds) THEN <<>>
    ELSE (IF ds[k].extraction_success THEN ContractDocChunks(ds[k], min_len) ELSE <<>>)
         \o contract_process_documents_stateful(ds, k + 1, min_len + Len(ds[k].full_text))

RECURSIVE contract_process_documents(_, _, _)
contract_process_documents(ds, k, min_len) ==
    IF k > Len(ds) THEN <<>>
    ELSE (IF ds[k].extraction_success THEN ContractDocChunks(ds[k], min_len) ELSE <<>>)
         \o contract_process_documents(ds, k + 1, min_len)

RECURSIVE law_process_documents(_, _, _)
law_process_documents(ds, k, min_len) ==
    IF k > Len(ds) THEN <<>>
    ELSE (IF ds[k].extraction_success THEN LawDocChunks(ds[k], min_len) ELSE <<>>)
         \o law_process_documents(ds, k + 1, min_len)

\* clauses with a priority up to this one are listed as important
ImportantPriority == 15

\* the figures _write_contract_statistics writes for the records of one
\* contract, which save_results hands over sorted by chunk_index
_write_contract_statistics(contract_chunks) ==
    LET idx == {contract_chunks[k].metadata.chunk_index : k \in DOMAIN contract_chunks}
        sizes == {Len(contract_chunks[k].text) : k \in DOMAIN contract_chunks}
        types == {contract_chunks[k].metadata.clause_type : k \in DOMAIN contract_chunks}
        parties == {contract_chunks[k].metadata.contract_party : k \in DOMAIN contract_chunks}
        min_idx == CHOOSE i \in idx : \A j \in idx : i <= j
        max_idx == CHOOSE i \in idx : \A j \in idx : j <= i
    IN [clause_total |-> Len(contract_chunks),
        max_chunk_size |-> CHOOSE x \in sizes : \A y \in sizes : y <= x,
        min_chunk_size |-> CHOOSE x \in sizes : \A y \in sizes : x <= y,
        clause_types |->
            [ty \in types |-> Cardinality({k \in DOMAIN contract_chunks :
                                  contract_chunks[k].metadata.clause_type = ty})],
        party_stats |->
            [pa \in parties |-> Cardinality({k \in DOMAIN contract_chunks :
                                  contract_chunks[k].metadata.contract_party = pa})],
        missing_indices |-> (min_idx..max_idx) \ idx,
        important_clauses |->
            Cardinality({k \in DOMAIN contract_chunks :
                contract_chunks[k].metadata.clause_priority <= ImportantPriority})]

\* the records of one source file, in output order
RECURSIVE GroupOf(_, _, _)
GroupOf(records, k, source) ==
    IF k > Len(records) THEN <<>>
    ELSE (IF records[k].metadata.source = source THEN <<records[k]>> ELSE <<>>)
         \o GroupOf(records, k + 1, source)

\* the sources of the records in the order of their first record: the key
\* order of the grouping dict
RECURSIVE SourcesInOrder(_, _, _)
SourcesInOrder(records, k, seen) ==
    IF k > Len(records) THEN seen
    ELSE SourcesInOrder(records, k + 1,
            IF \E i \in DOMAIN seen : seen[i] = records[k].metadata.source
            THEN seen ELSE Append(seen, records[k].metadata.source))

\* the characters of a stem
Chars(stem) ==
    CASE stem = "a" -> <<"a">>
      [] stem = "b" -> <<"b">>
      [] stem = "a_1" -> <<"a", "_", "1">>
      [] stem = "a:" -> <<"a", ":">>
      [] stem = "a?" -> <<"a", "?">>
      [] OTHER -> <<>>

InvalidChars == {"<", ">", ":", "/", "|", "?", "*", NL}
FolderNameLimit == 80
UnnamedFolder == <<"unnamed">>

\* str.strip('. ')
RECURSIVE StripDotsAndSpaces(_)
StripDotsAndSpaces(name) ==
    IF name = <<>> THEN <<>>
    ELSE IF name[1] \in {DOT, SP} THEN StripDotsAndSpaces(Tail(name))
    ELSE IF name[Len(name)] \in {DOT, SP}
    THEN StripDotsAndSpaces(SubSeq(name, 1, Len(name) - 1))
    ELSE name

\* re.sub(r'_+', '_', name)
RECURSIVE CollapseUnderscores(_)
CollapseUnderscores(name) ==
    IF Len(name) < 2 THEN name
    ELSE IF name[1] = "_" /\ name[2] = "_" THEN CollapseUnderscores(Tail(name))
    ELSE <<name[1]>> \o CollapseUnderscores(Tail(name))

_make_valid_folder_name(name) ==
    IF name = <<>> THEN UnnamedFolder
    ELSE LET replaced == [i \in DOMAIN name |->
                            IF name[i] \in InvalidChars THEN "_" ELSE name[i]]
             collapsed == CollapseUnderscores(StripDotsAndSpaces(replaced))
             valid_name == IF Len(collapsed) > FolderNameLimit
                           THEN SubSeq(collapsed, 1, FolderNameLimit) ELSE collapsed
         IN IF valid_name = <<>> \/ \A i \in DOMAIN valid_name : IsSpace(valid_name[i])
            THEN UnnamedFolder ELSE valid_name

\* the while loop of save_results: the name itself if it is free, else the
\* name with the first free counter appended
RECURSIVE FreeFolderName(_, _, _)
FreeFolderName(original_name, counter, used) ==
    LET safe_folder_name ==
            IF counter = 0 THEN original_name
            ELSE original_name \o <<"_", ToString(counter)>>
    IN IF safe_folder_name \in used THEN FreeFolderName(original_name, counter + 1, used)
       ELSE safe_folder_name

\* the folder ContractDocumentProcessor.save_results gives to each source
RECURSIVE contract_folders(_, _, _, _)
contract_folders(records, sources, k, assigned) ==
    IF k > Len(sources) THEN assigned
    ELSE LET file_stem == GroupOf(records, 1, sources[k])[1].metadata.source_stem
             used == {assigned[x] : x \in DOMAIN assigned}
             folder == FreeFolderName(_make_valid_folder_name(Chars(file_stem)), 0, used)
         IN contract_folders(records, sources, k + 1,
                [x \in DOMAIN assigned \cup {sources[k]} |->
                    IF x = sources[k] THEN folder ELSE assigned[x]])

\* the folder UniversalLegalDocumentProcessor.save_results gives to each
\* source: Path(source).stem
law_folders(records, sources, k, assigned) ==
    [x \in {sources[i] : i \in DOMAIN sources} |-> Chars(Stem(x))]

\* chunks.json of every folder after the sources were written in order
RECURSIVE WriteChunksJson(_, _, _, _, _)
WriteChunksJson(records, sources, k, folder_of, written) ==
    IF k > Len(sources) THEN written
    ELSE WriteChunksJson(records, sources, k + 1, folder_of,
            [x \in DOMAIN written \cup {folder_of[sources[k]]} |->
                IF x = folder_of[sources[k]] THEN GroupOf(records, 1, sources[k])
                ELSE written[x]])

\* the figures _write_document_statistics writes for the records of one
\* legal document
_write_document_statistics(doc_chunks) ==
    LET idx == {doc_chunks[k].metadata.chunk_index : k \in DOMAIN doc_chunks}
        sizes == {Len(doc_chunks[k].text) : k \in DOMAIN doc_chunks}
        types == {doc_chunks[k].metadata.clause_type : k \in DOMAIN doc_chunks}
        min_idx == CHOOSE i \in idx : \A j \in idx : i <= j
        max_idx == CHOOSE i \in idx : \A j \in idx : j <= i
    IN [chunk_total |-> Len(doc_chunks),
        max_chunk_size |-> CHOOSE x \in sizes : \A y \in sizes : y <= x,
        min_chunk_size |-> CHOOSE x \in sizes : \A y \in sizes : x <= y,
        clause_types |->
            [ty \in types |-> Cardinality({k \in DOMAIN doc_chunks :
                                  doc_chunks[k].metadata.clause_type = ty})],
        missing_indices |-> (min_idx..max_idx) \ idx]

law_save_results(records) ==
    [source \in {records[k].metadata.source : k \in DOMAIN records} |->
        _write_document_statistics(GroupOf(records, 1, source))]

\* save_results: the records are grouped by source; a statistics file is
\* written for every source that has a record
contract_save_results(records) ==
    [source \in {records[k].metadata.source : k \in DOMAIN records} |->
        _write_contract_statistics(GroupOf(records, 1, source))]

---------------------------------------------------------------------------
(* A processor driven over one input directory *)

MaxFiles == 2
MaxParas == 2

FileNames == {"a.docx", "b.docx", "a.doc"}

ParaPool ==
    { <<DIGIT, DOT, ORD, NL, CIRCLED, ORD, ORD, ORD, SP>>,
      <<SP, ORD, ORD>> }

ParaLists == UNION {[1..n -> ParaPool] : n \in 0..MaxParas}

\* the .doc file is there for the order of the listing; it has at most one
\* paragraph
FileRecords ==
    [file_name : FileNames \ {"a.doc"}, paragraphs : ParaLists, readable : {TRUE}]
    \cup [file_name : {"a.doc"},
          paragraphs : UNION {[1..n -> ParaPool] : n \in 0..1}, readable : {TRUE}]
    \cup [file_name : FileNames, paragraphs : {<<>>}, readable : {FALSE}]

\* glob("*.docx") followed by glob("*.doc"): distinct names, .docx first
Directories ==
    {fs \in UNION {[1..n -> FileRecords] : n \in 0..MaxFiles} :
        \A i, j \in DOMAIN fs :
            i < j => /\ fs[i].file_name # fs[j].file_name
                     /\ fs[i].file_name = "a.doc" => fs[j].file_name = "a.doc"}

InitBatch ==
    /\ proc \in {"contract", "law"}
    /\ files \in Directories
    /\ min_chunk_length \in {1, 3}
    /\ docs = <<>>
    /\ all_chunks = <<>>
    /\ stage = "constructed"
    /\ text = <<>>
    /\ text_is_None = FALSE
    /\ malformed = 0
    /\ NoCall
    /\ DefaultSizes
    /\ op = "idle"
    /\ clause_positions = <<>>
    /\ clause_starts = <<>>
    /\ clauses = <<>>
    /\ chunks = <<>>

\* ContractDocumentProcessor.load_all_documents()
ContractLoadAllDocuments ==
    /\ proc = "contract"
    /\ stage = "constructed"
    /\ docs' = contract_load_all_documents(files)
    /\ stage' = "loaded"
    /\ UNCHANGED <<splitterVars, min_chunk_length, sizeVars, importVars, proc, files, all_chunks, statistics, saveVars,
                   callVars, labelVars>>

\* ContractDocumentProcessor.process_documents()
ContractProcessDocuments ==
    /\ proc = "contract"
    /\ stage \in {"constructed", "loaded"}
    /\ docs' = IF docs = <<>> THEN contract_load_all_documents(files) ELSE docs
    /\ all_chunks' = contract_process_documents(docs', 1, min_chunk_length)
    /\ stage' = "processed"
    /\ UNCHANGED <<splitterVars, min_chunk_length, sizeVars, importVars, proc, files, statistics, saveVars,
                   callVars, labelVars>>

\* UniversalLegalDocumentProcessor.load_all_documents()
LawLoadAllDocuments ==
    /\ proc = "law"
    /\ stage = "constructed"
    /\ docs' = law_load_all_documents(files)
    /\ stage' = "loaded"
    /\ UNCHANGED <<splitterVars, min_chunk_length, sizeVars, importVars, proc, files, all_chunks, statistics, saveVars,
                   callVars, labelVars>>

\* UniversalLegalDocumentProcessor.process_documents()
LawProcessDocuments ==
    /\ proc = "law"
    /\ stage \in {"constructed", "loaded"}
    /\ docs' = IF docs = <<>> THEN law_load_all_documents(files) ELSE docs
    /\ all_chunks' = law_process_documents(docs', 1, min_chunk_length)
    /\ stage' = "processed"
    /\ UNCHANGED <<splitterVars, min_chunk_length, sizeVars, importVars, proc, files, statistics, saveVars,
                   callVars, labelVars>>

\* ContractDocumentProcessor.save_results(chunks)
ContractSaveResults ==
    /\ proc = "contract"
    /\ stage = "processed"
    /\ statistics' = contract_save_results(all_chunks)
    /\ LET sources == SourcesInOrder(all_chunks, 1, <<>>)
       IN /\ folders' = contract_folders(all_chunks, sources, 1, <<>>)
          /\ chunks_json' = WriteChunksJson(all_chunks, sources, 1, folders', <<>>)
    /\ stage' = "saved"
    /\ UNCHANGED <<splitterVars, min_chunk_length, sizeVars, importVars, proc, files, docs, all_chunks,
                   callVars, labelVars>>

\* UniversalLegalDocumentProcessor.save_results(chunks)
LawSaveResults ==
    /\ proc = "law"
    /\ stage = "processed"
    /\ statistics' = law_save_results(all_chunks)
    /\ LET sources == SourcesInOrder(all_chunks, 1, <<>>)
       IN /\ folders' = law_folders(all_chunks, sources, 1, <<>>)
          /\ chunks_json' = WriteChunksJson(all_chunks, sources, 1, folders', <<>>)
    /\ stage' = "saved"
    /\ UNCHANGED <<splitterVars, min_chunk_length, sizeVars, importVars, proc, files, docs, all_chunks,
                   callVars, labelVars>>

NextBatch ==
    \/ ContractLoadAllDocuments
    \/ ContractProcessDocuments
    \/ ContractSaveResults
    \/ LawSaveResults
    \/ LawLoadAllDocuments
    \/ LawProcessDocuments

SpecBatch == InitBatch /\ [][NextBatch]_vars

---------------------------------------------------------------------------
(* Properties of the processors *)

RECURSIVE RecordsFrom(_, _, _)
RecordsFrom(records, k, source) ==
    IF k > Len(records) THEN <<>>
    ELSE (IF records[k].metadata.source = source THEN <<records[k]>> ELSE <<>>)
         \o RecordsFrom(records, k + 1, source)

SpanCount(doc) ==
    IF proc = "contract"
    THEN Len(split_by_contract_clauses(doc.full_text, min_chunk_length))
    ELSE Len(split_by_clauses(doc.full_text, min_chunk_length))

\* C1: the records of one document carry chunk_index 0, 1, ..., N-1 in
\* output order and total_chunks_in_doc = N, N being the number of spans the
\* splitter returns for the document.
C1_ChunkIndexContiguous ==
    stage = "processed" =>
        /\ \A k \in DOMAIN all_chunks :
              \E d \in DOMAIN docs : all_chunks[k].metadata.source = docs[d].file_name
        /\ \A d \in DOMAIN docs :
              LET recs == RecordsFrom(all_chunks, 1, docs[d].file_name)
                  N == SpanCount(docs[d])
              IN /\ Len(recs) = N
                 /\ \A j \in 1..Len(recs) :
                       /\ recs[j].metadata.chunk_index = j - 1
                       /\ recs[j].metadata.total_chunks_in_doc = N

C1_Witness ==
    /\ stage = "processed"
    /\ Len(docs) = 2
    /\ \E k \in 1..(Len(all_chunks) - 1) :
          /\ all_chunks[k].metadata.chunk_index = 2
          /\ all_chunks[k].metadata.total_chunks_in_doc = 3
          /\ all_chunks[k + 1].metadata.chunk_index = 0
          /\ all_chunks[k + 1].metadata.source # all_chunks[k].metadata.source

---------------------------------------------------------------------------
(* identify_contract_party and _detect_clause_type applied to one span *)

MaxUnits == 2

JieKuan == <<"jie", "kuan">>

\* the pieces the span texts are put together from: party words with and
\* without a colon (the third holds the keyword dai kuan), a keyword, a
\* line break
Units ==
    { JiaFang \o <<":">>, YiFang \o <<"fullwidth_colon">>, JiaFang,
      DaiKuanRen \o <<":">>, JieKuan, <<NL>> }

UnitLists == UNION {[1..n -> Units] : n \in 0..MaxUnits}

RECURSIVE Flatten(_, _)
Flatten(us, k) == IF k > Len(us) THEN <<>> ELSE us[k] \o Flatten(us, k + 1)

Leads == {<<>>, <<DIGIT, DOT>>}

\* number of plain characters before the pieces: around the offsets 50 and
\* 200 at which the two functions stop looking, and 250
Paddings ==
    {0} \cup ((HeaderLimit - 3)..(HeaderLimit - 1))
        \cup ((PartyLimit - 4)..(PartyLimit - 2)) \cup {PartyLimit + HeaderLimit}

\* total lengths on both sides of the limits of the length buckets
Totals == {ShortLimit - 1, ShortLimit, MediumLimit - 1, MediumLimit}

PadTo(t, n) == IF Len(t) >= n THEN t ELSE t \o Repeat(ORD, n - Len(t))

\* a span text is trimmed and not empty
SpanTexts ==
    {t \in {PadTo(lead \o Repeat(ORD, pad) \o Flatten(us, 1), total) :
               lead \in Leads, pad \in Paddings, us \in UnitLists, total \in Totals} :
        t # <<>> /\ Strip(t) = t}

InitSpan ==
    /\ text \in SpanTexts
    /\ min_chunk_length = DefaultMinChunkLength
    /\ text_is_None = FALSE
    /\ malformed = 0
    /\ NoCall
    /\ DefaultSizes
    /\ op = "span"
    /\ clause_positions = <<>>
    /\ clause_starts = <<>>
    /\ clauses = <<>>
    /\ chunks = <<>>
    /\ proc = "none"
    /\ files = <<>>
    /\ docs = <<>>
    /\ all_chunks = <<>>
    /\ stage = "idle"

\* ContractTextSplitter.identify_contract_party(text)
IdentifyContractParty ==
    /\ op = "span"
    /\ op' = "party"
    /\ party' = identify_contract_party(text)
    /\ UNCHANGED <<text, clause_positions, clause_starts, clauses, chunks,
                   min_chunk_length, sizeVars, importVars, batchVars, callVars, clause_type>>

\* ContractTextSplitter._detect_clause_type(text)
DetectClauseType ==
    /\ op = "span"
    /\ op' = "type"
    /\ clause_type' = _detect_clause_type(text)
    /\ UNCHANGED <<text, clause_positions, clause_starts, clauses, chunks,
                   min_chunk_length, sizeVars, importVars, batchVars, callVars, party>>

NextSpan == IdentifyContractParty \/ DetectClauseType

SpecSpan == InitSpan /\ [][NextSpan]_vars

---------------------------------------------------------------------------
(* Properties of the labels *)

\* keyword k of party_keywords stands at offset a of text, followed by a colon
KeywordColonAt(k, a) ==
    LET kw == party_keywords[k].keyword IN
    /\ a + Len(kw) < Len(text)
    /\ \A i \in 1..Len(kw) : Char(text, a + i - 1) = kw[i]
    /\ IsColon(Char(text, a + Len(kw)))

\* the keywords that occur with their colon inside the first 200 characters
KeywordsInHead ==
    {k \in DOMAIN party_keywords :
        \E a \in 0..(PartyLimit - 1) :
            KeywordColonAt(k, a) /\ a + Len(party_keywords[k].keyword) < PartyLimit}

\* C11: identify_contract_party looks at the first 200 characters only: a
\* keyword whose colon stands at index 200 or later is not detected, and
\* the label is "other" when no keyword with its colon lies within them.
C11_OnlyFirst200Characters ==
    op = "party" =>
        LET found == KeywordsInHead IN
        /\ found = {} => party = "other"
        /\ \A k \in DOMAIN party_keywords :
              party = party_keywords[k].party => k \in found

C11_Witness ==
    /\ op = "party"
    /\ party = "other"
    /\ Len(text) > PartyLimit
    /\ \E k \in DOMAIN party_keywords :
          KeywordColonAt(k, PartyLimit - Len(party_keywords[k].keyword))

\* C12: the label is that of the first keyword, in the fixed order of
\* party_keywords, that occurs with a colon in the first 200 characters,
\* wherever the keywords stand in the text; it is "other" if none occurs.
C12_FirstKeywordInFixedOrder ==
    op = "party" =>
        LET found == KeywordsInHead IN
        /\ party \in {party_keywords[k].party : k \in DOMAIN party_keywords} \cup {"other"}
        /\ \A k \in DOMAIN party_keywords :
              party = party_keywords[k].party
                 <=> (k \in found /\ \A j \in 1..(k - 1) : j \notin found)
        /\ party = "other" <=> found = {}

C12_Witness ==
    /\ op = "party"
    /\ party = party_keywords[1].party
    /\ \E a, b \in 0..(PartyLimit - 1) :
          a < b /\ KeywordColonAt(2, a) /\ KeywordColonAt(1, b) /\ 1 \in KeywordsInHead
    /\ \A b \in 0..(PartyLimit - 1) : KeywordColonAt(1, b) =>
          \E a \in 0..(b - 1) : KeywordColonAt(2, a)

\* the first line of text, trimmed
FirstLine == Strip(Slice(text, 0, EndOfLine(text, 0)))

\* the rules that match at the start of line
RuleHits(line) ==
    {r \in DOMAIN contract_clause_patterns :
        MatchEnd(contract_clause_patterns[r].pattern, line, 0) >= 0}

\* the keywords that lie within the first 50 characters of line
KeywordHits(line) ==
    {k \in DOMAIN contract_keywords :
        \E a \in 0..(HeaderLimit - Len(contract_keywords[k].keyword)) :
            /\ a + Len(contract_keywords[k].keyword) <= Len(line)
            /\ \A i \in 1..Len(contract_keywords[k].keyword) :
                  Char(line, a + i - 1) = contract_keywords[k].keyword[i]}

LengthBucket ==
    IF Len(text) < ShortLimit THEN "short_clause"
    ELSE IF Len(text) < MediumLimit THEN "medium_clause" ELSE "long_clause"

\* C16: _detect_clause_type takes the type of the first rule, in table
\* order, that matches at the start of the first line; failing that, the
\* type of the first keyword, in table order, found in the first 50
\* characters of the first line; failing that, the length bucket of the
\* whole text (below 100 short, below 300 medium, otherwise long).
C16_ThreeStages ==
    op = "type" =>
        LET rules == RuleHits(FirstLine)
            keywords == KeywordHits(FirstLine)
        IN /\ \A r \in rules :
                 (\A x \in 1..(r - 1) : x \notin rules)
                    => clause_type = contract_clause_patterns[r].type
           /\ rules = {} =>
                 /\ \A k \in keywords :
                       (\A x \in 1..(k - 1) : x \notin keywords)
                          => clause_type = contract_keywords[k].type
                 /\ keywords = {} => clause_type = LengthBucket

\* no rule matches, a keyword lies across offset 50 of the first line and
\* counts for nothing, and the text is exactly 100 characters long
C16_Witness ==
    /\ op = "type"
    /\ RuleHits(FirstLine) = {}
    /\ KeywordHits(FirstLine) = {}
    /\ \E k \in DOMAIN contract_keywords :
          Contains(Slice(FirstLine, HeaderLimit - 1, HeaderLimit + 2),
                   contract_keywords[k].keyword)
    /\ Len(text) = ShortLimit
    /\ clause_type = "medium_clause"

---------------------------------------------------------------------------
(* Further properties of the splitters *)

\* what process_documents returns for one extracted document with this text
RecordsOfText(t) ==
    contract_process_documents(
        << [file_name |-> "a.docx", file_stem |-> "a", contract_title |-> "untitled",
            full_text |-> t, total_paragraphs |-> 0, extraction_success |-> TRUE] >>,
        1, min_chunk_length)
    \o law_process_documents(
        << [file_name |-> "a.docx", full_text |-> t, total_paragraphs |-> 0,
            extraction_success |-> TRUE] >>,
        1, min_chunk_length)

\* C13: for the empty string, None or a text of whitespace only, both
\* split calls return the empty list without an exception and without
\* handing a rule to the scan, and process_documents has no record for a
\* document whose text is empty.
C13_EmptyInputEmptyOutput ==
    (text_is_None \/ Strip(text) = <<>>) =>
        /\ op = "contract" =>
              clauses = <<>> /\ clause_positions = <<>> /\ ~raised /\ rules_scanned = 0
        /\ op = "law" =>
              chunks = <<>> /\ clause_starts = <<>> /\ ~raised /\ rules_scanned = 0
        /\ (op # "new" /\ text = <<>>) => RecordsOfText(text) = <<>>

C13_Witness ==
    /\ op = "contract"
    /\ ~text_is_None
    /\ Len(text) >= 2
    /\ Strip(text) = <<>>
    /\ clauses = <<>>
    /\ rules_scanned = 0

LengthBuckets == {"short_clause", "medium_clause", "long_clause"}

KeywordTypes == {contract_keywords[k].type : k \in DOMAIN contract_keywords}

\* C15: a span made from a boundary candidate carries the type of the rule
\* that produced the candidate, never a keyword type or a length bucket;
\* these occur on preamble and paragraph spans only.
C15_BoundaryTypeKept ==
    op = "contract" =>
        \A k \in DOMAIN clauses :
            IF clauses[k].priority \in {0, ParagraphPriority}
            THEN clause_positions = <<>> \/ (k = 1 /\ clauses[k].priority = 0)
            ELSE /\ clauses[k].type \notin LengthBuckets \cup KeywordTypes
                 /\ \E c \in DOMAIN clause_positions :
                       /\ clause_positions[c][1] = clauses[k].lo
                       /\ clause_positions[c][3] = clauses[k].type
                       /\ clause_positions[c][4] = clauses[k].priority
                       /\ \E r \in DOMAIN contract_clause_patterns :
                             /\ contract_clause_patterns[r].priority = clauses[k].priority
                             /\ contract_clause_patterns[r].type = clauses[k].type
                             /\ MatchEnd(contract_clause_patterns[r].pattern,
                                         text, clauses[k].lo) >= 0

C15_Witness ==
    /\ op = "contract"
    /\ Len(clauses) >= 2
    /\ clauses[1].priority = 0
    /\ clauses[1].type \in LengthBuckets
    /\ clauses[2].priority = 18
    /\ clauses[2].type = "numbered"
    /\ Len(clauses[2].text) < ShortLimit

---------------------------------------------------------------------------
(* The contract splitter with one rule whose expression is invalid *)

MaxMalformedLen == 4

MalformedTexts == UNION {[1..n -> Alphabet] : n \in 0..MaxMalformedLen}

InitMalformed ==
    /\ text \in MalformedTexts
    /\ min_chunk_length \in 1..MaxMinLen
    /\ text_is_None = FALSE
    /\ malformed \in DOMAIN contract_clause_patterns
    /\ NoCall
    /\ DefaultSizes
    /\ op = "new"
    /\ clause_positions = <<>>
    /\ clause_starts = <<>>
    /\ clauses = <<>>
    /\ chunks = <<>>
    /\ proc = "none"
    /\ files = <<>>
    /\ docs = <<>>
    /\ all_chunks = <<>>
    /\ stage = "idle"

NextMalformed == SplitByContractClauses

SpecMalformed == InitMalformed /\ [][NextMalformed]_vars

\* the candidates that scanning the well-formed rules alone gives
RECURSIVE ScanWellFormed(_, _, _)
ScanWellFormed(t, r, positions) ==
    IF r > Len(contract_clause_patterns) THEN positions
    ELSE ScanWellFormed(t, r + 1,
            IF r = malformed THEN positions
            ELSE RecordMatches(contract_clause_patterns[r], t,
                               finditer(contract_clause_patterns[r].pattern, t), 1, positions))

\* C18 as stated: with one malformed rule, splitting never raises: the rule
\* is skipped, the candidates of the other rules are kept, and the spans,
\* the preamble and paragraph spans included, are returned.
C18_Original ==
    (op = "contract" /\ malformed # 0 /\ Strip(text) # <<>>) =>
        /\ clause_positions = SortByPos(ScanWellFormed(text, 1, <<>>))
        /\ ~raised

\* What the code does give: the scan itself never fails and skips the
\* malformed rule; the call raises exactly when a preamble or paragraph
\* span has to be classified and no rule before the malformed one matches
\* its first line.
MalformedRuleRaisesInClassification ==
    (op = "contract" /\ malformed # 0 /\ Strip(text) # <<>>) =>
        /\ clause_positions = SortByPos(ScanWellFormed(text, 1, <<>>))
        /\ raised =>
              /\ clauses = <<>>
              /\ clause_positions = <<>> \/ clause_positions[1][1] > 0
        /\ (clause_positions # <<>> /\ clause_positions[1][1] = 0) => ~raised

---------------------------------------------------------------------------
(* Failed extractions and dropped fragments *)

ExtractedRecord(file) ==
    IF proc = "contract" THEN contract_extract_docx_text(file)
    ELSE law_extract_docx_text(file)

RecordsAlone(file) ==
    IF proc = "contract"
    THEN contract_process_documents(<<contract_extract_docx_text(file)>>, 1, min_chunk_length)
    ELSE law_process_documents(<<law_extract_docx_text(file)>>, 1, min_chunk_length)

ReadableFiles == {i \in DOMAIN files : files[i].readable}

\* C19: a file whose extraction fails gives a failed-document record with
\* an error reason instead of an exception; the remaining files are still
\* loaded, and process_documents returns for every extracted document the
\* chunks it gives on its own, and no chunk of the failed file.
C19_FailureKeepsSiblings ==
    /\ \A i \in DOMAIN files \ ReadableFiles :
          LET rec == ExtractedRecord(files[i]) IN
          /\ ~rec.extraction_success
          /\ "error" \in DOMAIN rec
          /\ rec.full_text = <<>>
    /\ stage \in {"loaded", "processed"} =>
          /\ Len(docs) = Cardinality(ReadableFiles)
          /\ \A i \in ReadableFiles :
                \E d \in DOMAIN docs : docs[d] = ExtractedRecord(files[i])
    /\ stage = "processed" =>
          \A i \in DOMAIN files :
              RecordsFrom(all_chunks, 1, files[i].file_name) =
                  (IF files[i].readable THEN RecordsAlone(files[i]) ELSE <<>>)

C19_Witness ==
    /\ stage = "processed"
    /\ Len(files) = 2
    /\ ~files[1].readable
    /\ files[2].readable
    /\ Len(docs) = 1
    /\ Len(all_chunks) >= 2
    /\ \A k \in DOMAIN all_chunks : all_chunks[k].metadata.source = files[2].file_name

\* the pieces split_by_contract_clauses cuts t into before the length
\* test: the preamble and the text from each candidate to the next, or the
\* paragraphs
FragmentsOf(t) ==
    LET positions == _find_all_clause_positions(t) IN
    IF Strip(t) = <<>> THEN {}
    ELSE IF positions = <<>> THEN Range(re_split_paragraphs(t))
    ELSE {<<positions[i][1],
            IF i < Len(positions) THEN positions[i + 1][1] ELSE Len(t)>> :
              i \in DOMAIN positions}
         \cup (IF positions[1][1] > 0 THEN {<<0, positions[1][1]>>} ELSE {})

\* the fragments that are dropped for being shorter than min_len
DroppedFragments(t, min_len) ==
    {f \in FragmentsOf(t) :
        LET x == Strip(Slice(t, f[1], f[2])) IN x # <<>> /\ Len(x) < min_len}

\* C20 as stated: fragments below the minimum length are dropped without
\* an exception or an error record, and their number is counted in the
\* statistics of the document (the only figure the statistics have for
\* clauses that are not there is the number of missing clause indices).
C20_Original ==
    (proc = "contract" /\ stage = "saved") =>
        \A d \in DOMAIN docs :
            LET dropped == Cardinality(DroppedFragments(docs[d].full_text, min_chunk_length))
                source == docs[d].file_name
            IN /\ Len(RecordsFrom(all_chunks, 1, source)) + dropped
                     = Cardinality({f \in FragmentsOf(docs[d].full_text) :
                                      Strip(Slice(docs[d].full_text, f[1], f[2])) # <<>>})
               /\ source \in DOMAIN statistics =>
                     Cardinality(statistics[source].missing_indices) = dropped

\* What the code does give: the dropped fragments leave no trace: the
\* statistics count the kept spans only and never report a missing index.
DroppedFragmentsLeaveNoTrace ==
    (proc = "contract" /\ stage = "saved") =>
        /\ DOMAIN statistics = {all_chunks[k].metadata.source : k \in DOMAIN all_chunks}
        /\ \A d \in DOMAIN docs :
              LET source == docs[d].file_name IN
              source \in DOMAIN statistics =>
                  /\ statistics[source].clause_total
                        = Len(RecordsFrom(all_chunks, 1, source))
                  /\ statistics[source].missing_indices = {}

---------------------------------------------------------------------------
(* The candidate list *)

\* C25: the list returned by _find_all_clause_positions is strictly
\* ascending in the offset, every offset is an index into the text, and any
\* two candidates are at least 5 characters apart.
C25_CandidatesSortedValidApart ==
    op = "contract" =>
        /\ \A k \in 1..(Len(clause_positions) - 1) :
              clause_positions[k][1] < clause_positions[k + 1][1]
        /\ \A k \in DOMAIN clause_positions :
              0 <= clause_positions[k][1] /\ clause_positions[k][1] < Len(text)
        /\ \A i, j \in DOMAIN clause_positions :
              i # j => Abs(clause_positions[i][1] - clause_positions[j][1]) >= Tolerance

\* two candidates exactly 5 apart, found by different rules
C25_Witness ==
    /\ op = "contract"
    /\ \E i, j \in DOMAIN clause_positions :
          /\ clause_positions[j][1] - clause_positions[i][1] = Tolerance
          /\ clause_positions[j][4] # clause_positions[i][4]

---------------------------------------------------------------------------
(* Splitters constructed with other size hints *)

MaxSizeLen == 3

SizeTexts == UNION {[1..n -> Alphabet] : n \in 0..MaxSizeLen} \cup SpecialTexts

\* chunk_size and chunk_overlap as passed to __init__: the defaults, and
\* values below the length of a span
ChunkSizes == {1, DefaultChunkSize}
ChunkOverlaps == {0, DefaultChunkOverlap}

InitSizes ==
    /\ text \in SizeTexts
    /\ min_chunk_length \in 1..MaxMinLen
    /\ chunk_size \in ChunkSizes
    /\ chunk_overlap \in ChunkOverlaps
    /\ text_is_None = FALSE
    /\ malformed = 0
    /\ NoCall
    /\ op = "new"
    /\ clause_positions = <<>>
    /\ clause_starts = <<>>
    /\ clauses = <<>>
    /\ chunks = <<>>
    /\ proc = "none"
    /\ files = <<>>
    /\ docs = <<>>
    /\ all_chunks = <<>>
    /\ stage = "idle"

NextSizes == SplitByContractClauses \/ SplitByClauses

SpecSizes == InitSizes /\ [][NextSizes]_vars

\* the fragments the legal splitter cuts the text into: the text before the
\* first boundary and from each boundary to the next, or the whole text
LawFragments ==
    IF clause_starts = <<>> THEN {<<0, Len(text)>>}
    ELSE {<<clause_starts[i][1],
            IF i < Len(clause_starts) THEN clause_starts[i + 1][1] ELSE Len(text)>> :
              i \in DOMAIN clause_starts}
         \cup (IF clause_starts[1][1] > 0 THEN {<<0, clause_starts[1][1]>>} ELSE {})

\* the trimmed texts of the fragments in document order, those shorter than
\* min_chunk_length left out; nothing else of the configuration is read
RECURSIVE KeptTexts(_, _)
KeptTexts(fragments, k) ==
    IF k > Len(fragments) THEN <<>>
    ELSE LET x == Strip(Slice(text, fragments[k][1], fragments[k][2]))
         IN (IF x # <<>> /\ Len(x) >= min_chunk_length THEN <<x>> ELSE <<>>)
            \o KeptTexts(fragments, k + 1)

\* C21: the spans do not depend on chunk_size or chunk_overlap: whatever
\* the two hints are, the spans are the trimmed fragments between the
\* boundaries that reach min_chunk_length, each one whole, also when it is
\* longer than chunk_size.
C21_SizeHintsIgnored ==
    /\ (op = "contract" /\ Strip(text) # <<>>) =>
          [k \in DOMAIN clauses |-> clauses[k].text]
              = KeptTexts(SortedByStart(RawFragments), 1)
    /\ (op = "law" /\ Strip(text) # <<>>) =>
          chunks = KeptTexts(SortedByStart(LawFragments), 1)
    /\ (op \in {"contract", "law"} /\ Strip(text) = <<>>) =>
          clauses = <<>> /\ chunks = <<>>

C21_Witness ==
    /\ op = "contract"
    /\ chunk_size < DefaultChunkSize
    /\ chunk_overlap >= chunk_size
    /\ Len(clauses) >= 2
    /\ \A k \in DOMAIN clauses : Len(clauses[k].text) > chunk_size

---------------------------------------------------------------------------
(* The splitter across the documents of a batch *)

\* the spans of one document as its records carry them
SpanFields(records) ==
    [k \in DOMAIN records |->
        IF proc = "contract"
        THEN [text |-> records[k].text,
              type |-> records[k].metadata.clause_type,
              header |-> records[k].metadata.clause_header,
              priority |-> records[k].metadata.clause_priority]
        ELSE [text |-> records[k].text]]

\* the spans the splitter gives for a text under the configuration alone
SpansOfText(t) ==
    IF proc = "contract"
    THEN LET cl == split_by_contract_clauses(t, min_chunk_length)
         IN [k \in DOMAIN cl |-> [text |-> cl[k].text, type |-> cl[k].type,
                                  header |-> cl[k].header, priority |-> cl[k].priority]]
    ELSE LET ch == split_by_clauses(t, min_chunk_length)
         IN [k \in DOMAIN ch |-> [text |-> ch[k]]]

ConfigurationKept ==
    /\ min_chunk_length' = min_chunk_length
    /\ chunk_size' = chunk_size
    /\ chunk_overlap' = chunk_overlap
    /\ malformed' = malformed

SpansOfEachDocumentAlone ==
    stage \in {"processed", "saved"} =>
        \A d \in DOMAIN docs :
            SpanFields(RecordsFrom(all_chunks, 1, docs[d].file_name))
                = SpansOfText(docs[d].full_text)

---------------------------------------------------------------------------
(* The output folders of a batch *)

MaxSaveFiles == 3

\* file names with the same stem, with stems that sanitize to the same
\* name, and with a stem that looks like a numbered folder
SaveNames == {"a.docx", "a_1.docx", "a:.docx", "a?.docx", "a.doc"}

SaveFileRecords ==
    [file_name : SaveNames, paragraphs : {<< <<DIGIT, DOT, ORD>> >>}, readable : {TRUE}]

SaveDirectories ==
    {fs \in UNION {[1..n -> SaveFileRecords] : n \in 0..MaxSaveFiles} :
        \A i, j \in DOMAIN fs :
            i < j => /\ fs[i].file_name # fs[j].file_name
                     /\ fs[i].file_name = "a.doc" => fs[j].file_name = "a.doc"}

InitSave ==
    /\ proc \in {"contract", "law"}
    /\ files \in SaveDirectories
    /\ min_chunk_length = 1
    /\ docs = <<>>
    /\ all_chunks = <<>>
    /\ stage = "constructed"
    /\ text = <<>>
    /\ text_is_None = FALSE
    /\ malformed = 0
    /\ NoCall
    /\ DefaultSizes
    /\ op = "idle"
    /\ clause_positions = <<>>
    /\ clause_starts = <<>>
    /\ clauses = <<>>
    /\ chunks = <<>>

SpecSave == InitSave /\ [][NextBatch]_vars

SavedSources == {all_chunks[k].metadata.source : k \in DOMAIN all_chunks}

FoldersDistinct ==
    /\ DOMAIN folders = SavedSources
    /\ \A x, y \in SavedSources : x # y => folders[x] # folders[y]
    /\ \A x \in SavedSources : chunks_json[folders[x]] = GroupOf(all_chunks, 1, x)

\* C30 as stated: in one save_results run of either processor two
\* different source documents are written to two different folders, and
\* the chunks.json of every document holds that document's records.
C30_Original == stage = "saved" => FoldersDistinct

\* What does hold: the contract processor numbers a folder name that is
\* taken, so its folders are distinct; the legal processor's are distinct
\* when the stems of the sources are.
ContractFoldersDistinct ==
    stage = "saved" =>
        \/ proc = "contract" /\ FoldersDistinct
        \/ proc = "law" /\ ((\A x, y \in SavedSources : x # y => Stem(x) # Stem(y))
                              => FoldersDistinct)

---------------------------------------------------------------------------
(* SmartDocumentImporter (src/src/build_vector_db/import_to_vector_db.py) *)

MaxRuns == 2

batch_size == 50

\* the JSON files the scan finds, in the order it lists them
Paths == <<"law_chunks/a/chunks.json", "contract_chunks/b/chunks.json">>

\* what a file can hold: chunks filling two batches, one chunk, a list
\* without any text (or no valid JSON), or nothing that can be read
Contents == {"two_batches", "one_chunk", "no_documents", "unreadable"}

ChunkCount(content) ==
    CASE content = "two_batches" -> batch_size + 1
      [] content = "one_chunk" -> 1
      [] OTHER -> 0

\* compute_file_hash: the MD5 of the content, "" when the file cannot be read
compute_file_hash(content) ==
    CASE content = "two_batches" -> "md5_two_batches"
      [] content = "one_chunk" -> "md5_one_chunk"
      [] content = "no_documents" -> "md5_no_documents"
      [] OTHER -> ""

\* load_documents_from_json: one document per chunk with a text
load_documents_from_json(file_path, content) ==
    [i \in 1..ChunkCount(content) |->
        [source_file |-> file_path,
         page_content |-> <<content, i - 1>>,
         chunk_index |-> i - 1]]

\* faulty variant: a file of the ledger is imported again whatever its hash
is_file_always_updated(file_path, current_hash, processed) ==
    IF file_path \notin DOMAIN processed THEN <<FALSE, FALSE>> ELSE <<TRUE, TRUE>>

\* is_file_already_processed: (is_processed, needs_update)
is_file_already_processed(file_path, current_hash, processed) ==
    IF file_path \notin DOMAIN processed THEN <<FALSE, FALSE>>
    ELSE IF processed[file_path].hash = current_hash THEN <<TRUE, FALSE>>
    ELSE <<TRUE, TRUE>>

\* the documents of the store that where={"source_file": file_path} selects
DocumentsOf(store, file_path) ==
    {d \in BagToSet(store) : d.source_file = file_path}

\* vectorstore.delete(ids=...) of the documents of file_path
WithoutDocumentsOf(store, file_path) ==
    LET keep == BagToSet(store) \ DocumentsOf(store, file_path)
    IN [d \in keep |-> store[d]]

\* remove_old_documents: the store after the call; when get or delete
\* raises, the exception is caught and the store is left as it is
remove_old_documents(store, file_path, delete_raises) ==
    IF delete_raises THEN store ELSE WithoutDocumentsOf(store, file_path)

\* the batches documents[i:i + batch_size] that add_texts received before
\* the call that raised (all of them when fail_at = 0)
NumBatches(n) == (n + batch_size - 1) \div batch_size

AddedDocuments(documents, fail_at) ==
    LET last == IF fail_at = 0 THEN Len(documents)
                ELSE (fail_at - 1) * batch_size
    IN {documents[i] : i \in 1..last}

\* faulty variant: the ledger entry is written before the batches are added
LedgerEarly(processed, file_path, current_hash, n, failed) ==
    [x \in DOMAIN processed \cup {file_path} |->
        IF x = file_path THEN [hash |-> current_hash, document_count |-> n]
        ELSE processed[x]]

\* processed_files after step 6 of import_file, which is reached only when
\* no add_texts call raised
LedgerAfter(processed, file_path, current_hash, n, failed) ==
    IF failed THEN processed
    ELSE [x \in DOMAIN processed \cup {file_path} |->
            IF x = file_path THEN [hash |-> current_hash, document_count |-> n]
            ELSE processed[x]]

ZeroStats ==
    [scanned_files |-> 0, new_files |-> 0, modified_files |-> 0,
     unchanged_files |-> 0, failed_files |-> 0, total_chunks |-> 0, added_chunks |-> 0]

Bump(st, field) == [st EXCEPT ![field] = @ + 1]

InitImport ==
    /\ disk \in [{Paths[i] : i \in DOMAIN Paths} -> Contents]
    /\ vectorstore = EmptyBag
    /\ processed_files = <<>>
    /\ processed_files_log = <<>>
    /\ stats = ZeroStats
    /\ all_files = <<>>
    /\ next_file = 0
    /\ success_count = 0
    /\ returned = "none"
    /\ current_count = 0
    /\ runs = 0
    /\ pc = "idle"
    /\ text = <<>>
    /\ min_chunk_length = DefaultMinChunkLength
    /\ DefaultSizes
    /\ op = "idle"
    /\ clause_positions = <<>>
    /\ clause_starts = <<>>
    /\ clauses = <<>>
    /\ chunks = <<>>
    /\ proc = "none"
    /\ files = <<>>
    /\ docs = <<>>
    /\ all_chunks = <<>>
    /\ stage = "idle"
    /\ statistics = <<>>
    /\ folders = <<>>
    /\ chunks_json = <<>>
    /\ text_is_None = FALSE
    /\ malformed = 0
    /\ raised = FALSE
    /\ rules_scanned = 0
    /\ party = ""
    /\ clause_type = ""

notImportVars ==
    <<splitterVars, min_chunk_length, sizeVars, batchVars, callVars, labelVars>>

\* a source file is rewritten between two imports
ModifyFile ==
    /\ pc = "idle"
    /\ runs < MaxRuns
    /\ \E file_path \in DOMAIN disk : \E content \in Contents \ {disk[file_path]} :
          disk' = [disk EXCEPT ![file_path] = content]
    /\ UNCHANGED <<vectorstore, processed_files, processed_files_log, stats, all_files,
                   next_file, success_count, returned, current_count, runs, pc,
                   notImportVars>>

\* main: a new importer, then import_directories up to the loop: the scan
\* and load_processed_files
StartImport ==
    /\ pc = "idle"
    /\ runs < MaxRuns
    /\ runs' = runs + 1
    /\ current_count' = BagCardinality(vectorstore)
    /\ all_files' = Paths
    /\ stats' = [ZeroStats EXCEPT !.scanned_files = Len(Paths)]
    /\ processed_files' = processed_files_log
    /\ success_count' = 0
    /\ next_file' = 1
    /\ returned' = "none"
    /\ pc' = "running"
    /\ UNCHANGED <<disk, vectorstore, processed_files_log, notImportVars>>

\* one turn of the loop of import_directories: import_file on the next file.
\* delete_raises: get or delete raises inside remove_old_documents;
\* fail_at: the add_texts call that raises, 0 if none does.
ImportFile ==
    /\ pc = "running"
    /\ next_file <= Len(all_files)
    /\ next_file' = next_file + 1
    /\ LET file_path == all_files[next_file]
           content == disk[file_path]
           current_hash == compute_file_hash(content)
           status == is_file_already_processed(file_path, current_hash, processed_files)
           is_processed == status[1]
           needs_update == status[2]
           documents == load_documents_from_json(file_path, content)
       IN IF current_hash = ""
          THEN /\ stats' = Bump(stats, "failed_files")
               /\ returned' = "False"
               /\ UNCHANGED <<vectorstore, processed_files, success_count>>
          ELSE IF is_processed /\ ~needs_update
          THEN /\ stats' = Bump(stats, "unchanged_files")
               /\ returned' = "True"
               /\ success_count' = success_count + 1
               /\ UNCHANGED <<vectorstore, processed_files>>
          ELSE IF documents = <<>>
          THEN /\ stats' = Bump(stats, "failed_files")
               /\ returned' = "False"
               /\ UNCHANGED <<vectorstore, processed_files, success_count>>
          ELSE \E delete_raises \in (IF needs_update THEN BOOLEAN ELSE {FALSE}) :
               \E fail_at \in 0..NumBatches(Len(documents)) :
                 LET cleaned == IF needs_update
                                THEN remove_old_documents(vectorstore, file_path, delete_raises)
                                ELSE vectorstore
                     counted == Bump(stats, IF needs_update THEN "modified_files"
                                            ELSE "new_files")
                     failed == fail_at # 0
                 IN /\ vectorstore' = cleaned (+) SetToBag(AddedDocuments(documents, fail_at))
                    /\ processed_files' =
                          LedgerAfter(processed_files, file_path, current_hash,
                                      Len(documents), failed)
                    /\ stats' = IF failed THEN Bump(counted, "failed_files")
                                ELSE [counted EXCEPT
                                        !.total_chunks = @ + Len(documents),
                                        !.added_chunks = @ + Len(documents)]
                    /\ returned' = IF failed THEN "False" ELSE "True"
                    /\ success_count' = IF failed THEN success_count ELSE success_count + 1
    /\ UNCHANGED <<disk, processed_files_log, all_files, current_count, runs, pc,
                   notImportVars>>

\* the end of import_directories: save_processed_files and persist
FinishImport ==
    /\ pc = "running"
    /\ next_file > Len(all_files)
    /\ processed_files_log' = processed_files
    /\ pc' = "idle"
    /\ UNCHANGED <<disk, vectorstore, processed_files, stats, all_files, next_file,
                   success_count, returned, current_count, runs, notImportVars>>

NextImport == ModifyFile \/ StartImport \/ ImportFile \/ FinishImport

SpecImport == InitImport /\ [][NextImport]_vars

---------------------------------------------------------------------------
(* Properties of the importer *)

\* a step of the loop: import_file on all_files[next_file]
ImportStep == pc = "running" /\ pc' = "running" /\ next_file' = next_file + 1

CurrentFile == all_files[next_file]

CurrentHash == compute_file_hash(disk[CurrentFile])

\* the file is in the ledger with the hash of its current content
InLedgerUnchanged(ledger, file_path) ==
    /\ file_path \in DOMAIN ledger
    /\ ledger[file_path].hash = compute_file_hash(disk[file_path])

\* the file is in the ledger with another hash than that of its content
InLedgerModified(ledger, file_path) ==
    /\ file_path \in DOMAIN ledger
    /\ compute_file_hash(disk[file_path]) # ""
    /\ ledger[file_path].hash # compute_file_hash(disk[file_path])

\* the store's documents of one source file, with their numbers of copies
StoredFor(store, file_path) ==
    [d \in DocumentsOf(store, file_path) |-> store[d]]

\* one copy of every chunk of a content
ChunksOf(file_path, content) ==
    SetToBag({load_documents_from_json(file_path, content)[i] :
                 i \in 1..ChunkCount(content)})

ContentOfHash(h) == CHOOSE content \in Contents : compute_file_hash(content) = h

Ledger == IF pc = "running" THEN processed_files ELSE processed_files_log

SkipLeavesAllUnchanged ==
    (ImportStep /\ InLedgerUnchanged(processed_files, CurrentFile)) =>
        /\ vectorstore' = vectorstore
        /\ processed_files' = processed_files
        /\ stats' = [stats EXCEPT !.unchanged_files = @ + 1]
        /\ returned' = "True"

UnmodifiedRunAddsNothing ==
    (pc = "running"
     /\ \A i \in DOMAIN all_files : InLedgerUnchanged(processed_files_log, all_files[i]))
        => /\ BagCardinality(vectorstore) = current_count
           /\ stats.added_chunks = 0

\* C24: import_file skips a file that is in the ledger with the hash of its
\* current content: the store and the ledger are left as they are,
\* unchanged_files grows by one and the call returns True; an import over
\* files that are all in the ledger file with their current hash adds no
\* document.
C24_UnchangedFileSkipped ==
    [][SkipLeavesAllUnchanged]_vars /\ []UnmodifiedRunAddsNothing

C24_Witness ==
    /\ pc = "running"
    /\ runs = 2
    /\ next_file > Len(all_files)
    /\ stats.unchanged_files = Len(all_files)
    /\ current_count > batch_size
    /\ \A i \in DOMAIN all_files : InLedgerUnchanged(processed_files_log, all_files[i])

\* C27: the ledger entry of a file is written only by a call that added
\* every batch of the file and returns True; a call that fails (no hash, no
\* document, or a batch missing from the store) returns False, adds one to
\* failed_files and leaves the ledger as it was.
LedgerOnlyAfterAllBatches ==
    ImportStep =>
        LET file_path == CurrentFile
            content == disk[file_path]
            skipped == InLedgerUnchanged(processed_files, file_path)
            entry == [hash |-> CurrentHash, document_count |-> ChunkCount(content)]
            batch_missing ==
                \E d \in BagToSet(ChunksOf(file_path, content)) :
                    d \notin BagToSet(vectorstore')
        IN /\ returned' = "False" =>
                /\ processed_files' = processed_files
                /\ stats'.failed_files = stats.failed_files + 1
           /\ processed_files' # processed_files =>
                /\ returned' = "True"
                /\ ~batch_missing
                /\ DOMAIN processed_files' = DOMAIN processed_files \cup {file_path}
                /\ processed_files'[file_path] = entry
                /\ \A x \in DOMAIN processed_files \ {file_path} :
                      processed_files'[x] = processed_files[x]
           /\ (CurrentHash = "" \/ (~skipped /\ (ChunkCount(content) = 0 \/ batch_missing)))
                => returned' = "False"
           /\ (returned' = "True" /\ ~skipped) => processed_files'[file_path] = entry

C27_LedgerUpdatedLast == [][LedgerOnlyAfterAllBatches]_vars

\* a call failed after its first batch was added: the file has documents
\* in the store and no ledger entry
C27_Witness ==
    /\ pc = "running"
    /\ returned = "False"
    /\ next_file > 1
    /\ all_files[next_file - 1] \notin DOMAIN processed_files
    /\ Cardinality(DocumentsOf(vectorstore, all_files[next_file - 1])) = batch_size
    /\ stats.failed_files >= 1

\* C23 as stated: after any sequence of imports, failed and retried ones
\* included, no chunk of a file is in the store in more than one copy.
C23_Original ==
    \A d \in BagToSet(vectorstore) : CopiesIn(d, vectorstore) <= 1

\* C28 as stated: whenever the ledger records hash h and document_count n
\* for a file, the store holds for that source file exactly the n chunks of
\* the content with hash h.
C28_Original ==
    \A file_path \in DOMAIN Ledger :
        /\ StoredFor(vectorstore, file_path)
              = ChunksOf(file_path, ContentOfHash(Ledger[file_path].hash))
        /\ Ledger[file_path].document_count
              = BagCardinality(StoredFor(vectorstore, file_path))

ModifiedFileReplaced ==
    (ImportStep /\ InLedgerModified(processed_files, CurrentFile) /\ returned' = "True") =>
        StoredFor(vectorstore', CurrentFile) = ChunksOf(CurrentFile, disk[CurrentFile])

\* C26 as stated: whenever import_file returns True for a file whose hash
\* differs from the ledger's, the store holds for that source file exactly
\* the chunks of the current content and none of the old version.
C26_Original == [][ModifiedFileReplaced]_vars

\* What does hold for a modified file: the old documents are removed
\* before the new ones are added, or, when the removal raised, all of them
\* are still there beside the new ones.
ModifiedFileReplacedOrKept ==
    (ImportStep /\ InLedgerModified(processed_files, CurrentFile) /\ returned' = "True") =>
        \/ StoredFor(vectorstore', CurrentFile) = ChunksOf(CurrentFile, disk[CurrentFile])
        \/ StoredFor(vectorstore', CurrentFile)
              = StoredFor(vectorstore, CurrentFile) (+) ChunksOf(CurrentFile, disk[CurrentFile])

RemovalBeforeAddition == [][ModifiedFileReplacedOrKept]_vars

\* C29 as stated: at the end of an import every scanned file is counted in
\* exactly one of the four counters, and the returned success count is
\* new_files + modified_files + unchanged_files.
C29_Original ==
    (pc = "running" /\ next_file > Len(all_files)) =>
        /\ stats.new_files + stats.modified_files + stats.unchanged_files
              + stats.failed_files = stats.scanned_files
        /\ success_count
              = stats.new_files + stats.modified_files + stats.unchanged_files

\* What the counters do give: every file is counted in failed_files or in
\* the success count, never in both.
FailedOrSucceeded ==
    (pc = "running" /\ next_file > Len(all_files)) =>
        success_count + stats.failed_files = stats.scanned_files

====
